---- MODULE Spec2Model ----
(***************************************************************************)
(* A model of the plugin orchestration core of bindxdb:                    *)
(*   pkg/plugin/dependency.go   DependencyGraph, ResolveDependencies       *)
(*   pkg/plugin/registry.go     PluginRegistry                             *)
(*   pkg/plugin/lifecycle.go    LifecycleManager                           *)
(*   pkg/plugin/hooks/hooks.go  HookRegistry                               *)
(* Slices are sequences, maps are functions over the keys present, and an  *)
(* absent error is the string "nil".                                       *)
(***************************************************************************)
EXTENDS Integers, Sequences, FiniteSets, TLC

VARIABLES
    gnodes,     \* DependencyGraph.nodes of a stand-alone graph object
    gret,       \* what the last call on that graph returned
    gcalls,     \* how many calls have changed that graph
    plugins,        \* PluginRegistry.plugins: plugin ID -> PluginInfo
    pluginOrder,    \* PluginRegistry.pluginOrder
    hooks,          \* PluginRegistry.hooks: hook type -> registrations
    capabilities,   \* PluginRegistry.capabilities: capability -> provider IDs
    loaded,         \* Loader.loaded: the IDs loaded from a manifest
    mu,             \* PluginRegistry.mu: [readers, writer]
    fatal,          \* the Go runtime has terminated the process
    unlockFatal,    \* whether Unlock of a mutex not locked for writing is fatal
    calls,          \* the plugin methods and handlers the last operation invoked
    writes,         \* the fields the last operation assigned, each with how r.mu was held
    ret,            \* the last operation and what it returned
    nregs,          \* how many RegisterPlugin / LoadPlugin calls have run
    nops,           \* how many lifecycle operations have run
    hrHooks,        \* HookRegistry.hooks: hook type -> registrations
    byPlugin,       \* HookRegistry.byPlugin: plugin ID -> registrations
    stats,          \* HookRegistry.stats: hook ID -> [TotalCalls, TotalErrors]
    now,            \* time.Now().UnixNano() as RegisterHook last read it
    hrCalls,        \* the hook IDs whose handlers the last dispatch invoked
    hrReceived,     \* what each of those handlers found in hookCtx.Data
    hrRet,          \* the last HookRegistry call and what it returned
    ndispatch,      \* how many HookRegistry.ExecuteHooks calls have run
    sbLimits,       \* <<Sandbox.limits>>; <<>> before NewSandbox
    sbCancel,       \* Sandbox.cancel: 0 for nil, or the execution whose cancel it is
    sbUsage,        \* Sandbox.cpuUsage, memoryUsage and openFiles
    sbHost,         \* whether the host process runs or has died of a panic
    exPc,           \* per execution: where its Execute call is
    exRet,          \* per execution: what Execute returned
    exVia,          \* per execution: the case of the select Execute returned through
    exCtx,          \* per execution: ctx.Err() of the context Execute derived
    exCause,        \* per execution: who cancelled that context first
    exErrCh,        \* per execution: the buffered channel errCh
    exWorker,       \* per execution: where the goroutine running fn is
    exFn,           \* per execution: how fn ended
    exTimer,        \* per execution: whether time.After(MaxCPUTime) has fired
    exMonitor,      \* per execution: where the monitorResources goroutine is
    exDone,         \* per execution: whether monitorDone is closed
    pdArrays,       \* the backing arrays of the slices of registrations ever made
    pdHooks,        \* r.hooks[hookType] of the PluginRegistry: a backing array and a length
    pdMu,           \* r.mu of the PluginRegistry
    pdPc,           \* where the one PluginRegistry.ExecuteHooks call is
    pdLocal,        \* its local variable hooks
    pdIndex,        \* the index its range loop is at
    pdInvoked,      \* the handlers it has invoked
    pdListed,       \* the handlers the list held when it read r.hooks[hookType]
    pdAdds,         \* how many AddHook calls have run, pdInside of them from a handler
    pdInside,
    hdHooks,        \* r.hooks[hookType] of the HookRegistry
    hdMu,           \* r.mu of the HookRegistry
    hdPc,           \* where the one HookRegistry.ExecuteHooks call is
    hdCopy,         \* its registrationsCopy
    hdIndex,        \* the index its range loop is at
    hdInvoked,      \* the hook IDs whose handlers it has invoked
    hdNow,          \* how many RegisterHook calls have run
    hdInside,       \* how many calls handlers have made to the HookRegistry
    lcState,        \* info.State of the plugin the concurrent callers work on
    lcPc,           \* per caller: where its lifecycle call is
    lcOp,           \* per caller: the lifecycle method it has called
    lcCalls,        \* per caller: how many calls it has made
    lcLog,          \* the methods of the instance invoked so far, in order
    lcOrder,        \* r.pluginOrder as the concurrent callers leave it
    lcHooks,        \* how many registrations of the declared handler r.hooks holds
    lcProviders     \* how many times r.capabilities lists the plugin

gvars == <<gnodes, gret, gcalls>>

rvars == <<plugins, pluginOrder, hooks, capabilities, loaded, mu, fatal, unlockFatal,
           calls, writes, ret, nregs, nops>>

hvars == <<hrHooks, byPlugin, stats, now, hrCalls, hrReceived, hrRet, ndispatch>>

svars == <<sbLimits, sbCancel, sbUsage, sbHost, exPc, exRet, exVia, exCtx, exCause,
           exErrCh, exWorker, exFn, exTimer, exMonitor, exDone>>

pdvars == <<pdArrays, pdHooks, pdMu, pdPc, pdLocal, pdIndex, pdInvoked, pdListed, pdAdds,
            pdInside>>

hdvars == <<hdHooks, hdMu, hdPc, hdCopy, hdIndex, hdInvoked, hdNow, hdInside>>

dvars == <<pdvars, hdvars>>

lvars == <<lcState, lcPc, lcOp, lcCalls, lcLog, lcOrder, lcHooks, lcProviders>>

vars == <<gvars, rvars, hvars, svars, dvars, lvars>>

\* ------------------------------------------------------------- bounds
\* The longest Dependencies list of a plugin's metadata.
MaxDeps == 1

\* How many AddPlugin / AddDependency calls the stand-alone graph receives.
MaxGraphCalls == 4

\* How many RegisterPlugin / LoadPlugin calls run; they all run before the
\* first lifecycle operation.
MaxRegs == 3

\* How many lifecycle operations (validate, resolve, start, stop, restart,
\* unload) run.
MaxOps == 2

\* How many AddHook calls the registry receives from outside the lifecycle.
MaxAddHooks == 2

\* How many HookRegistry.RegisterHook calls run.
MaxHooks == 3

\* How many HookRegistry.ExecuteHooks calls run.
MaxDispatch == 1

\* How many Execute calls one Sandbox receives, one after the other.
MaxExecs == 2

\* The longest list of registrations a hook type starts with in the model of
\* long lists.
MaxListed == 12

\* The length up to which sort.Slice sorts by insertion.
MaxInsertion == 12

\* How many AddHook calls the registry of the dispatch in steps receives.
MaxSliceAdds == 4

\* How many calls handlers make to the HookRegistry during one dispatch.
MaxInside == 2

\* ------------------------------------------------------------- inputs
PluginIDs == {"A", "B", "C"}

\* Capability names (PluginMetadata.Provides / Requires).
Capabilities == {"cap"}

\* The rank of a plugin ID in Go's string order (sort.Slice by PluginID).
IDRank(id) == CASE id = "A" -> 1 [] id = "B" -> 2 [] id = "C" -> 3 [] OTHER -> 4

\* The hook types the model dispatches (HookShutdown is the one StopPlugins
\* fires).
HookTypes == {"shutdown"}

\* Handlers registered through AddHook from outside the lifecycle, and the
\* priorities they are registered with.
ApiHandlers == {"h1", "h2"}

ApiPriorities == {10, 90}

\* The handler a plugin instance declares through GetHooks().
DeclaredHandler(id) == CASE id = "A" -> "hA" [] id = "B" -> "hB" [] OTHER -> "hC"

\* ------------------------------------------------------------- helpers
Contains(s, x) == \E i \in 1..Len(s) : s[i] = x

SeqToSet(s) == {s[i] : i \in 1..Len(s)}

IndexOf(s, x) == CHOOSE i \in 1..Len(s) : s[i] = x /\ \A j \in 1..(i-1) : s[j] # x

NoDup(s) == \A i, j \in 1..Len(s) : i # j => s[i] # s[j]

\* Every order in which a Go map with key set S may be ranged over.
Perms(S) == {p \in [1..Cardinality(S) -> S] : \A i, j \in 1..Cardinality(S) : i # j => p[i] # p[j]}

\* The Dependencies lists the model registers: at most MaxDeps entries, no
\* plugin named twice.
DepLists ==
    {d \in UNION {[1..n -> [PluginID : PluginIDs, Optional : BOOLEAN]] : n \in 0..MaxDeps} :
        \A i, j \in 1..Len(d) : i # j => d[i].PluginID # d[j].PluginID}

CapLists == {<<>>} \cup {<<c>> : c \in Capabilities}

\* PluginMetadata, reduced to the fields the orchestration core reads.
Metadatas ==
    [ID : PluginIDs, Dependencies : DepLists, Provides : CapLists, Requires : CapLists]

\* ------------------------------------------------------- DependencyGraph
\* The plugin IDs of the non-optional entries of a Dependencies list, in order.
RECURSIVE NonOptionalIDs(_)
NonOptionalIDs(deps) ==
    IF deps = <<>> THEN <<>>
    ELSE IF ~Head(deps).Optional
         THEN <<Head(deps).PluginID>> \o NonOptionalIDs(Tail(deps))
         ELSE NonOptionalIDs(Tail(deps))

\* NewDependencyGraph(): no nodes.
EmptyGraph == [id \in {} |-> <<>>]

\* The node AddPlugin builds: DependsOn is seeded with the non-optional
\* dependencies and then with the required capability names.
NewGraphNode(metadata) ==
    [PluginID   |-> metadata.ID,
     Dependents |-> <<>>,
     DependsOn  |-> NonOptionalIDs(metadata.Dependencies) \o metadata.Requires]

\* g.nodes[metadata.ID] = node
AddPlugin(nodes, metadata) ==
    [id \in (DOMAIN nodes) \cup {metadata.ID} |->
        IF id = metadata.ID THEN NewGraphNode(metadata) ELSE nodes[id]]

\* A variant of AddDependency that appends to DependsOn before it looks
\* for the target.
AddDependencyEager(nodes, from, to) ==
    IF from \notin DOMAIN nodes THEN [nodes |-> nodes, err |-> "source plugin not found"]
    ELSE IF to \notin DOMAIN nodes
    THEN [nodes |-> [nodes EXCEPT ![from].DependsOn = Append(@, to)],
          err |-> "target plugin not found"]
    ELSE [nodes |-> nodes, err |-> "nil"]

\* AddDependency(from, to): the graph afterwards and the error returned.
AddDependency(nodes, from, to) ==
    IF from \notin DOMAIN nodes THEN [nodes |-> nodes, err |-> "source plugin not found"]
    ELSE IF to \notin DOMAIN nodes THEN [nodes |-> nodes, err |-> "target plugin not found"]
    ELSE IF Contains(nodes[from].DependsOn, to) THEN [nodes |-> nodes, err |-> "nil"]
    ELSE LET n1 == [nodes EXCEPT ![from].DependsOn = Append(@, to)]
         IN  IF Contains(n1[to].Dependents, from) THEN [nodes |-> n1, err |-> "nil"]
             ELSE [nodes |-> [n1 EXCEPT ![to].Dependents = Append(@, from)], err |-> "nil"]

\* detectCyclesDFS(node, path) with the markers Visited and TempVisit held as
\* the sets visited and temp: the markers afterwards and the path returned.
RECURSIVE detectCyclesDFS(_, _, _, _, _), detectCyclesDeps(_, _, _, _, _, _)
detectCyclesDFS(nodes, visited, temp, id, path) ==
    IF id \in temp
    THEN IF Contains(path, id)
         THEN [visited |-> visited, temp |-> temp,
               cycle |-> Append(SubSeq(path, IndexOf(path, id), Len(path)), id)]
         ELSE [visited |-> visited, temp |-> temp, cycle |-> path]
    ELSE IF id \in visited
    THEN [visited |-> visited, temp |-> temp, cycle |-> <<>>]
    ELSE LET r == detectCyclesDeps(nodes, visited, temp \cup {id}, id, Append(path, id), 1)
         IN  IF Len(r.cycle) > 0 THEN r
             ELSE [visited |-> r.visited \cup {id}, temp |-> r.temp \ {id}, cycle |-> <<>>]

\* The loop of detectCyclesDFS over node.DependsOn, from index i on.
detectCyclesDeps(nodes, visited, temp, id, path, i) ==
    IF i > Len(nodes[id].DependsOn)
    THEN [visited |-> visited, temp |-> temp, cycle |-> <<>>]
    ELSE LET depID == nodes[id].DependsOn[i]
         IN  IF depID \in DOMAIN nodes
             THEN LET r == detectCyclesDFS(nodes, visited, temp, depID, path)
                  IN  IF Len(r.cycle) > 0 THEN r
                      ELSE detectCyclesDeps(nodes, r.visited, r.temp, id, path, i + 1)
             ELSE detectCyclesDeps(nodes, visited, temp, id, path, i + 1)

\* The second loop of DetectCycle, ranging over the map in the order `order`.
\* `cycle` is the function's own variable; the loop body declares a new
\* variable of the same name with := and appends to that one, so the
\* function's variable is passed on as it was.
RECURSIVE DetectCycleLoop(_, _, _, _, _, _)
DetectCycleLoop(nodes, visited, temp, order, i, cycle) ==
    IF i > Len(order) THEN cycle
    ELSE IF order[i] \notin visited
         THEN LET r == detectCyclesDFS(nodes, visited, temp, order[i], <<>>)
                  inner == IF Len(r.cycle) > 0 THEN r.cycle \o r.cycle ELSE r.cycle
              IN  DetectCycleLoop(nodes, r.visited, r.temp, order, i + 1, cycle)
         ELSE DetectCycleLoop(nodes, visited, temp, order, i + 1, cycle)

\* DetectCycle(): every marker is cleared, then the loop runs.
DetectCycle(nodes, order) ==
    LET cycle == DetectCycleLoop(nodes, {}, {}, order, 1, <<>>)
    IN  IF Len(cycle) > 0
        THEN [cycle |-> cycle, err |-> "circular dependencies detected"]
        ELSE [cycle |-> <<>>, err |-> "nil"]

\* topologicalSortDFS(node, result): the Visited markers and *result afterwards.
RECURSIVE topologicalSortDFS(_, _, _, _), topologicalSortDeps(_, _, _, _, _)
topologicalSortDFS(nodes, visited, id, result) ==
    LET r == topologicalSortDeps(nodes, visited \cup {id}, id, result, 1)
    IN  [visited |-> r.visited, result |-> Append(r.result, id)]

topologicalSortDeps(nodes, visited, id, result, i) ==
    IF i > Len(nodes[id].DependsOn)
    THEN [visited |-> visited, result |-> result]
    ELSE LET depID == nodes[id].DependsOn[i]
         IN  IF depID \in DOMAIN nodes /\ depID \notin visited
             THEN LET r == topologicalSortDFS(nodes, visited, depID, result)
                  IN  topologicalSortDeps(nodes, r.visited, id, r.result, i + 1)
             ELSE topologicalSortDeps(nodes, visited, id, result, i + 1)

\* The node IDs in ascending order (sort.Slice by PluginID).
RECURSIVE SortedIDs(_)
SortedIDs(S) ==
    IF S = {} THEN <<>>
    ELSE LET m == CHOOSE x \in S : \A y \in S : IDRank(x) <= IDRank(y)
         IN  <<m>> \o SortedIDs(S \ {m})

\* The loop of TopologicalSort over the sorted nodes.
RECURSIVE TopologicalSortLoop(_, _, _, _, _)
TopologicalSortLoop(nodes, visited, sorted, i, result) ==
    IF i > Len(sorted) THEN result
    ELSE IF sorted[i] \notin visited
         THEN LET r == topologicalSortDFS(nodes, visited, sorted[i], result)
              IN  TopologicalSortLoop(nodes, r.visited, sorted, i + 1, r.result)
         ELSE TopologicalSortLoop(nodes, visited, sorted, i + 1, result)

\* The closing loop of TopologicalSort, which swaps result[i] and result[j]
\* from both ends inwards.
ReverseResult(result) == [i \in 1..Len(result) |-> result[Len(result) + 1 - i]]

TopologicalSort(nodes, order) ==
    LET dc == DetectCycle(nodes, order)
    IN  IF dc.err # "nil" THEN [order |-> <<>>, err |-> dc.err]
        ELSE IF Len(dc.cycle) > 0 THEN [order |-> <<>>, err |-> "connot sort with cycles"]
        ELSE [order |-> ReverseResult(
                            TopologicalSortLoop(nodes, {}, SortedIDs(DOMAIN nodes), 1, <<>>)),
              err |-> "nil"]

\* --------------------------------------------------------- sync.RWMutex
\* The operators below thread a record w through a call: the registry's and
\* the loader's fields, the mutex, the fatal flag and the invocation log.
RLock(w) == [w EXCEPT !.mu.readers = @ + 1]

RUnlock(w) ==
    IF w.mu.readers = 0 THEN [w EXCEPT !.fatal = TRUE]
    ELSE [w EXCEPT !.mu.readers = @ - 1]

Lock(w) == [w EXCEPT !.mu.writer = TRUE]

\* Unlock of a mutex that is not locked for writing is a run-time error
\* ("fatal error: sync: Unlock of unlocked RWMutex"), which no recover()
\* intercepts. With unlockFatal = FALSE the model lets such an Unlock release
\* the read lock instead, to follow the code past that point.
Unlock(w) ==
    IF w.mu.writer THEN [w EXCEPT !.mu.writer = FALSE]
    ELSE IF w.unlockFatal THEN [w EXCEPT !.fatal = TRUE]
    ELSE [w EXCEPT !.mu.readers = IF @ > 0 THEN @ - 1 ELSE 0]

\* Appends an invocation to the log: a plugin method and the plugin's ID, or
\* "Handler" and the registration whose handler is called.
Invoke(w, method, who) == [w EXCEPT !.calls = Append(@, <<method, who>>)]

\* How the caller holds r.mu at a point of the code.
Held(w) == IF w.mu.writer THEN "Lock" ELSE IF w.mu.readers > 0 THEN "RLock" ELSE "none"

\* Notes assignments to the registry's fields named in what, with how r.mu
\* is held where the code makes them.
Wrote(w, what) == [w EXCEPT !.writes = @ \cup {<<f, Held(w)>> : f \in what}]

\* --------------------------------------------------------- PluginRegistry
EmptyMap == [x \in {} |-> <<>>]

\* m[k] = v on a Go map.
MapPut(m, k, v) == [x \in (DOMAIN m) \cup {k} |-> IF x = k THEN v ELSE m[x]]

\* delete(m, k)
MapDelete(m, k) == [x \in (DOMAIN m) \ {k} |-> m[x]]

\* The keys of a map in one of the orders range may take; used where the
\* loop's result does not depend on the order.
MapKeys(m) == CHOOSE p \in Perms(DOMAIN m) : TRUE

\* m[k] of a map of slices: nil for an absent key.
MapGet(m, k) == IF k \in DOMAIN m THEN m[k] ELSE <<>>

\* A variant of RegisterPlugin without the test for an ID already present.
RegisterPluginOverwrites(w, plugin) ==
    LET w1 == Lock(w)
        info == [Metadata   |-> plugin.Metadata,
                 Instance   |-> plugin,
                 State      |-> "Loaded",
                 Hooks      |-> EmptyMap,
                 Dependents |-> <<>>]
    IN  [w |-> Unlock(Wrote([w1 EXCEPT !.plugins = MapPut(@, plugin.Metadata.ID, info)],
                              {"plugins"})),
         err |-> "nil"]

\* RegisterPlugin(plugin): plugin is the instance, [Metadata, GetHooks].
RegisterPlugin(w, plugin) ==
    LET w1 == Lock(w)
        pluginID == plugin.Metadata.ID
    IN  IF pluginID \in DOMAIN w1.plugins
        THEN [w |-> Unlock(w1), err |-> "ErrPluginAlreadyLoaded"]
        ELSE LET info == [Metadata   |-> plugin.Metadata,
                          Instance   |-> plugin,
                          State      |-> "Loaded",
                          Hooks      |-> EmptyMap,
                          Dependents |-> <<>>]
             IN  [w |-> Unlock(Wrote([w1 EXCEPT !.plugins = MapPut(@, pluginID, info)],
                                       {"plugins"})),
                  err |-> "nil"]

\* GetPluginInfo(pluginID): RLock, then a deferred Unlock (not RUnlock).
GetPluginInfo(w, pluginID) ==
    LET w1 == RLock(w)
    IN  IF pluginID \notin DOMAIN w1.plugins
        THEN [w |-> Unlock(w1), err |-> "ErrPluginNotFound"]
        ELSE [w |-> Unlock(w1), err |-> "nil"]

\* The less function of AddHook's sort.Slice.
AddHookLess(a, b) == a.Priority < b.Priority

\* A variant of RegisterHookLess that orders by ascending priority.
RegisterHookLessAscending(a, b) == a.Priority < b.Priority

\* The less function of HookRegistry.RegisterHook's sort.Slice.
RegisterHookLess(a, b) == a.Priority > b.Priority

SliceLess(which, a, b) ==
    IF which = "AddHook" THEN AddHookLess(a, b) ELSE RegisterHookLess(a, b)

\* sort.Slice with the less function named by which. Up to twelve elements
\* Go sorts by insertion, which is what these two operators do.
RECURSIVE InsertSorted(_, _, _)
InsertSorted(sorted, x, which) ==
    IF sorted = <<>> THEN <<x>>
    ELSE LET last == sorted[Len(sorted)]
         IN  IF SliceLess(which, x, last)
             THEN Append(InsertSorted(SubSeq(sorted, 1, Len(sorted) - 1), x, which), last)
             ELSE Append(sorted, x)

RECURSIVE SortSlice(_, _)
SortSlice(s, which) ==
    IF s = <<>> THEN <<>>
    ELSE InsertSorted(SortSlice(SubSeq(s, 1, Len(s) - 1), which), s[Len(s)], which)

\* s with its elements i and i + 1 exchanged.
SwapNext(s, i) == [k \in 1..Len(s) |-> IF k = i THEN s[i + 1] ELSE IF k = i + 1 THEN s[i] ELSE s[k]]

\* What sort.Slice may leave of the slice s. Up to MaxInsertion elements it
\* sorts by insertion, and a longer slice found in order it leaves alone.
\* Any other it partitions around a pivot, exchanging elements far apart,
\* and it does not promise to keep the order of elements neither of which
\* is less than the other: the model lets it return the order sorting by
\* insertion gives, or that order with one pair of such neighbours exchanged.
SliceOutcomes(s, which) ==
    LET sorted == SortSlice(s, which)
    IN  IF Len(s) <= MaxInsertion \/ sorted = s THEN {sorted}
        ELSE {sorted} \cup
             {SwapNext(sorted, i) : i \in {k \in 1..(Len(sorted) - 1) :
                                            /\ ~SliceLess(which, sorted[k], sorted[k + 1])
                                            /\ ~SliceLess(which, sorted[k + 1], sorted[k])}}

\* AddHook(pluginID, hookType, handler, priority)
AddHook(w, pluginID, hookType, handler, priority) ==
    LET w1 == Lock(w)
    IN  IF pluginID \notin DOMAIN w1.plugins
        THEN [w |-> Unlock(w1), err |-> "ErrPluginNotFound"]
        ELSE LET info == w1.plugins[pluginID]
                 infoHooks == IF hookType \notin DOMAIN info.Hooks
                              THEN MapPut(info.Hooks, hookType, <<handler>>)
                              ELSE info.Hooks
                 registration == [PluginID |-> pluginID, Handler |-> handler,
                                  Priority |-> priority]
                 sorted == SortSlice(Append(MapGet(w1.hooks, hookType), registration),
                                     "AddHook")
             IN  [w |-> Unlock(Wrote([w1 EXCEPT !.plugins[pluginID].Hooks = infoHooks,
                                                !.hooks = MapPut(@, hookType, sorted)],
                                       {"info.Hooks", "hooks"})),
                  err |-> "nil"]

\* The loop of PluginRegistry.ExecuteHooks over the snapshot, from index i on.
\* failing is the set of handlers that return an error in this dispatch.
RECURSIVE ExecuteHooksLoop(_, _, _, _)
ExecuteHooksLoop(w, snapshot, i, failing) ==
    IF i > Len(snapshot) THEN [w |-> w, err |-> "nil"]
    ELSE LET w1 == Invoke(w, "Handler", snapshot[i])
         IN  IF snapshot[i].Handler \in failing
             THEN [w |-> w1, err |-> "hook failed"]
             ELSE ExecuteHooksLoop(w1, snapshot, i + 1, failing)

\* PluginRegistry.ExecuteHooks(ctx, hookType, data)
ExecuteHooks(w, hookType, failing) ==
    LET w1 == RLock(w)
        snapshot == MapGet(w1.hooks, hookType)
        w2 == RUnlock(w1)
    IN  IF Len(snapshot) = 0 THEN [w |-> w2, err |-> "nil"]
        ELSE ExecuteHooksLoop(w2, snapshot, 1, failing)

\* A variant of MissingDeps that does not look at dep.Optional.
MissingDepsAnyDependency(w) ==
    {<<x, y>> \in (DOMAIN w.plugins) \X PluginIDs :
        (\E i \in 1..Len(w.plugins[x].Metadata.Dependencies) :
            w.plugins[x].Metadata.Dependencies[i].PluginID = y)
        /\ y \notin DOMAIN w.plugins}

\* The pairs X -> Y that ValidateDependencies reports: X registered, Y a
\* non-optional dependency of X that is not registered.
MissingDeps(w) ==
    {<<x, y>> \in (DOMAIN w.plugins) \X PluginIDs :
        Contains(NonOptionalIDs(w.plugins[x].Metadata.Dependencies), y)
        /\ y \notin DOMAIN w.plugins}

ValidateDependencies(w) ==
    LET w1 == RLock(w)
        missingDeps == MissingDeps(w1)
    IN  IF missingDeps # {}
        THEN [w |-> RUnlock(w1), err |-> "ErrDependencyMissing", missing |-> missingDeps]
        ELSE [w |-> RUnlock(w1), err |-> "nil", missing |-> {}]

\* ResolveDependencies, first loop: a node for every registered plugin.
RECURSIVE ResolveAddPlugins(_, _, _, _)
ResolveAddPlugins(w, nodes, order, i) ==
    IF i > Len(order) THEN nodes
    ELSE ResolveAddPlugins(w, AddPlugin(nodes, w.plugins[order[i]].Metadata), order, i + 1)

\* ResolveDependencies, second loop, the edges of one plugin: AddDependency
\* for the non-optional dependencies from index i on (a failed call is only
\* logged) ...
RECURSIVE ResolveAddDeps(_, _, _, _)
ResolveAddDeps(nodes, pluginID, deps, i) ==
    IF i > Len(deps) THEN nodes
    ELSE ResolveAddDeps(AddDependency(nodes, pluginID, deps[i]).nodes, pluginID, deps, i + 1)

\* ... and for the first provider of every required capability.
RECURSIVE ResolveAddCaps(_, _, _, _, _)
ResolveAddCaps(w, nodes, pluginID, requires, i) ==
    IF i > Len(requires) THEN nodes
    ELSE LET providers == MapGet(w.capabilities, requires[i])
         IN  IF requires[i] \in DOMAIN w.capabilities /\ Len(providers) > 0
             THEN ResolveAddCaps(w, AddDependency(nodes, pluginID, providers[1]).nodes,
                                 pluginID, requires, i + 1)
             ELSE ResolveAddCaps(w, nodes, pluginID, requires, i + 1)

RECURSIVE ResolveAddEdges(_, _, _, _)
ResolveAddEdges(w, nodes, order, i) ==
    IF i > Len(order) THEN nodes
    ELSE LET metadata == w.plugins[order[i]].Metadata
             n1 == ResolveAddDeps(nodes, order[i], NonOptionalIDs(metadata.Dependencies), 1)
             n2 == ResolveAddCaps(w, n1, order[i], metadata.Requires, 1)
         IN  ResolveAddEdges(w, n2, order, i + 1)

\* ResolveDependencies(): order is the order in which the plugin map is
\* ranged over. The Dependents and pluginOrder are written under the read lock.
ResolveDependencies(w, order) ==
    LET w1 == RLock(w)
        graph == ResolveAddEdges(w1, ResolveAddPlugins(w1, EmptyGraph, order, 1), order, 1)
        dc == DetectCycle(graph, order)
        ts == TopologicalSort(graph, order)
    IN  IF dc.err # "nil"
        THEN [w |-> RUnlock(w1), order |-> <<>>, err |-> "dependency cycle detected"]
        ELSE IF Len(dc.cycle) > 0
        THEN [w |-> RUnlock(w1), order |-> <<>>, err |-> "circular dependencies"]
        ELSE IF ts.err # "nil"
        THEN [w |-> RUnlock(w1), order |-> <<>>, err |-> "failed to resolve dependencies"]
        ELSE LET withDependents ==
                     [id \in DOMAIN w1.plugins |->
                         [w1.plugins[id] EXCEPT !.Dependents = graph[id].Dependents]]
             IN  [w |-> RUnlock(Wrote([w1 EXCEPT !.plugins = withDependents,
                                                 !.pluginOrder = ts.order],
                                        {"info.Dependents", "pluginOrder"})),
                  order |-> ts.order, err |-> "nil"]

\* ------------------------------------------------------- LifecycleManager
\* The priority StartPlugin registers every declared handler with.
StartPluginPriority == 100 + 1

\* StartPlugin, the loop over one hook type's handlers from index i on; a
\* failed AddHook is only logged.
RECURSIVE StartAddHandlers(_, _, _, _, _)
StartAddHandlers(w, pluginID, hookType, handlers, i) ==
    IF i > Len(handlers) THEN w
    ELSE StartAddHandlers(
             AddHook(w, pluginID, hookType, handlers[i], StartPluginPriority).w,
             pluginID, hookType, handlers, i + 1)

\* StartPlugin, the loop over the hook types GetHooks() returns, ranged over
\* in the order types.
RECURSIVE StartAddHooks(_, _, _, _, _)
StartAddHooks(w, pluginID, declared, types, i) ==
    IF i > Len(types) THEN w
    ELSE StartAddHooks(StartAddHandlers(w, pluginID, types[i], declared[types[i]], 1),
                       pluginID, declared, types, i + 1)

\* A variant of StartAddProvides that leaves the capability table alone.
StartAddProvidesNothing(w, pluginID, provides, i) == w

\* StartPlugin, the loop over metadata.Provides: the capability table is
\* appended to without the registry lock.
RECURSIVE StartAddProvides(_, _, _, _)
StartAddProvides(w, pluginID, provides, i) ==
    IF i > Len(provides) THEN w
    ELSE StartAddProvides(
             Wrote([w EXCEPT !.capabilities =
                       MapPut(@, provides[i], Append(MapGet(@, provides[i]), pluginID))],
                   {"capabilities"}),
             pluginID, provides, i + 1)

\* A variant of StartPluginSwitch without the case for StateStarted.
StartPluginSwitchNoStarted(state) ==
    IF state = "Failed" THEN "plugin is in failed state" ELSE "go on"

\* A variant of StartPluginSwitch without the case for StateFailed.
StartPluginSwitchNoFailed(state) ==
    IF state = "Started" THEN "nil" ELSE "go on"

\* StartPlugin, the switch on info.State: what StartPlugin returns at once,
\* or "go on".
StartPluginSwitch(state) ==
    IF state = "Started" THEN "nil"
    ELSE IF state = "Failed" THEN "plugin is in failed state"
    ELSE "go on"

\* StartPlugin(ctx, pluginID). fails names the method of this instance that
\* returns an error in this call: "Init", "Start" or "none".
StartPlugin(w, pluginID, fails) ==
    LET g == GetPluginInfo(w, pluginID)
    IN  IF g.w.fatal THEN [w |-> g.w, err |-> "fatal"]
        ELSE IF g.err # "nil" THEN g
        ELSE IF StartPluginSwitch(g.w.plugins[pluginID].State) # "go on"
        THEN [w |-> g.w, err |-> StartPluginSwitch(g.w.plugins[pluginID].State)]
        ELSE
        LET info == g.w.plugins[pluginID]
            doInit == info.State = "Loaded"
            w1 == IF doInit THEN Invoke(g.w, "Init", pluginID) ELSE g.w
        IN  IF doInit /\ fails = "Init"
            THEN [w |-> Wrote([w1 EXCEPT !.plugins[pluginID].State = "Failed"], {"info.State"}),
                  err |-> "failed to initialize plugin"]
            ELSE
            LET w2 == IF doInit THEN Wrote([w1 EXCEPT !.plugins[pluginID].State = "Initialized"], {"info.State"})
                      ELSE w1
                w3 == Invoke(w2, "Start", pluginID)
            IN  IF fails = "Start"
                THEN [w |-> Wrote([w3 EXCEPT !.plugins[pluginID].State = "Failed"], {"info.State"}),
                      err |-> "failed to start plugin"]
                ELSE
                LET w4 == Wrote([w3 EXCEPT !.plugins[pluginID].State = "Started"], {"info.State"})
                    declared == info.Instance.GetHooks
                    w5 == StartAddHooks(w4, pluginID, declared,
                                        MapKeys(declared), 1)
                    w6 == StartAddProvides(w5, pluginID, info.Metadata.Provides, 1)
                IN  [w |-> w6, err |-> "nil"]

\* A variant of StartPluginsLoop that goes on to the next plugin after a
\* failed StartPlugin and returns the first error at the end.
RECURSIVE StartPluginsLoopKeepsGoing(_, _, _, _)
StartPluginsLoopKeepsGoing(w, startupOrder, i, failAt) ==
    IF i > Len(startupOrder) THEN [w |-> w, err |-> "nil"]
    ELSE LET fails == IF failAt[1] = startupOrder[i] THEN failAt[2] ELSE "none"
             r == StartPlugin(w, startupOrder[i], fails)
             rest == StartPluginsLoopKeepsGoing(r.w, startupOrder, i + 1, failAt)
         IN  IF r.err # "nil" THEN [w |-> rest.w, err |-> r.err] ELSE rest

\* StartPlugins, the loop over startupOrder from index i on. failAt is
\* <<pluginID, method>> for the one instance method that fails, if any.
RECURSIVE StartPluginsLoop(_, _, _, _)
StartPluginsLoop(w, startupOrder, i, failAt) ==
    IF i > Len(startupOrder) THEN [w |-> w, err |-> "nil"]
    ELSE LET fails == IF failAt[1] = startupOrder[i] THEN failAt[2] ELSE "none"
             r == StartPlugin(w, startupOrder[i], fails)
         IN  IF r.err # "nil" THEN r
             ELSE StartPluginsLoop(r.w, startupOrder, i + 1, failAt)

\* HealthCheck(ctx): unready is the set of instances whose Ready() is false.
HealthCheck(w, unready) ==
    LET w1 == RUnlock(RLock(w))
        unhealthy == {id \in DOMAIN w1.plugins :
                         w1.plugins[id].State # "Started" \/ id \in unready}
    IN  IF unhealthy # {} THEN [w |-> w1, err |-> "plugins unhealthy"]
        ELSE [w |-> w1, err |-> "nil"]

\* StartPlugins(ctx, config) without auto-discovery, up to the start loop:
\* ValidateDependencies, then ResolveDependencies. order is the order in
\* which ResolveDependencies ranges over the plugin map.
StartPluginsResolve(w, order) ==
    LET v == ValidateDependencies(w)
    IN  IF v.err # "nil"
        THEN [w |-> v.w, order |-> <<>>, err |-> v.err, missing |-> v.missing]
        ELSE LET rd == ResolveDependencies(v.w, order)
             IN  [w |-> rd.w, order |-> rd.order, err |-> rd.err, missing |-> {}]

\* StartPlugins from the start loop on; rd is what StartPluginsResolve left,
\* healthCheck is config.HealthCheck.
StartPluginsStart(rd, failAt, healthCheck, unready) ==
    IF rd.err # "nil" THEN [w |-> rd.w, err |-> rd.err, missing |-> rd.missing]
    ELSE LET st == StartPluginsLoop(rd.w, rd.order, 1, failAt)
             hc == HealthCheck(st.w, unready)
         IN  IF st.err # "nil" THEN [w |-> st.w, err |-> st.err, missing |-> {}]
             ELSE IF healthCheck THEN [w |-> hc.w, err |-> hc.err, missing |-> {}]
             ELSE [w |-> st.w, err |-> "nil", missing |-> {}]

StartPlugins(w, order, failAt, healthCheck, unready) ==
    StartPluginsStart(StartPluginsResolve(w, order), failAt, healthCheck, unready)

\* StopPlugin, the loop over info.Dependents from index i on, collecting the
\* dependents found Started.
RECURSIVE RunningDependents(_, _, _, _)
RunningDependents(w, dependents, i, runningDeps) ==
    IF i > Len(dependents) THEN [w |-> w, runningDeps |-> runningDeps]
    ELSE LET g == GetPluginInfo(w, dependents[i])
         IN  IF g.w.fatal THEN [w |-> g.w, runningDeps |-> runningDeps]
             ELSE IF g.err = "nil" /\ g.w.plugins[dependents[i]].State = "Started"
             THEN RunningDependents(g.w, dependents, i + 1, Append(runningDeps, dependents[i]))
             ELSE RunningDependents(g.w, dependents, i + 1, runningDeps)

\* StopPlugin(ctx, pluginID). stopFails is the set of instances whose Stop
\* returns an error.
StopPlugin(w, pluginID, stopFails) ==
    LET g == GetPluginInfo(w, pluginID)
    IN  IF g.w.fatal THEN [w |-> g.w, err |-> "fatal"]
        ELSE IF g.err # "nil" THEN g
        ELSE IF g.w.plugins[pluginID].State # "Started" THEN [w |-> g.w, err |-> "nil"]
        ELSE
        LET rd == RunningDependents(g.w, g.w.plugins[pluginID].Dependents, 1, <<>>)
        IN  IF rd.w.fatal THEN [w |-> rd.w, err |-> "fatal"]
            ELSE IF Len(rd.runningDeps) > 0
            THEN [w |-> rd.w, err |-> "dependents still running"]
            ELSE
            LET w1 == Invoke(rd.w, "Stop", pluginID)
            IN  IF pluginID \in stopFails
                THEN [w |-> Wrote([w1 EXCEPT !.plugins[pluginID].State = "Failed"], {"info.State"}),
                      err |-> "failed to stop plugin"]
                ELSE [w |-> Wrote([w1 EXCEPT !.plugins[pluginID].State = "Stopped"], {"info.State"}),
                      err |-> "nil"]

\* A variant of StopPluginsLoop that walks pluginOrder from its first entry
\* to its last.
RECURSIVE StopPluginsLoopForward(_, _, _, _, _)
StopPluginsLoopForward(w, order, i, stopFails, stopErrors) ==
    IF i < 1 THEN [w |-> w, stopErrors |-> stopErrors]
    ELSE LET k == Len(order) + 1 - i
             r == StopPlugin(w, order[k], stopFails)
         IN  IF r.w.fatal THEN [w |-> r.w, stopErrors |-> stopErrors]
             ELSE IF r.err # "nil"
             THEN StopPluginsLoopForward(r.w, order, i - 1, stopFails,
                                         Append(stopErrors, order[k]))
             ELSE StopPluginsLoopForward(r.w, order, i - 1, stopFails, stopErrors)

\* A variant of StopPluginsLoop that leaves the loop at the first StopPlugin
\* that fails.
RECURSIVE StopPluginsLoopStopsAtFailure(_, _, _, _, _)
StopPluginsLoopStopsAtFailure(w, order, i, stopFails, stopErrors) ==
    IF i < 1 THEN [w |-> w, stopErrors |-> stopErrors]
    ELSE LET r == StopPlugin(w, order[i], stopFails)
         IN  IF r.w.fatal THEN [w |-> r.w, stopErrors |-> stopErrors]
             ELSE IF r.err # "nil"
             THEN [w |-> r.w, stopErrors |-> Append(stopErrors, order[i])]
             ELSE StopPluginsLoopStopsAtFailure(r.w, order, i - 1, stopFails, stopErrors)

\* StopPlugins, the loop from index i of pluginOrder down to the first,
\* collecting the IDs whose StopPlugin failed.
RECURSIVE StopPluginsLoop(_, _, _, _, _)
StopPluginsLoop(w, order, i, stopFails, stopErrors) ==
    IF i < 1 THEN [w |-> w, stopErrors |-> stopErrors]
    ELSE LET r == StopPlugin(w, order[i], stopFails)
         IN  IF r.w.fatal THEN [w |-> r.w, stopErrors |-> stopErrors]
             ELSE IF r.err # "nil"
             THEN StopPluginsLoop(r.w, order, i - 1, stopFails, Append(stopErrors, order[i]))
             ELSE StopPluginsLoop(r.w, order, i - 1, stopFails, stopErrors)

\* StopPlugins(ctx). hookFails is the set of shutdown handlers that fail.
StopPlugins(w, stopFails, hookFails) ==
    LET w1 == RUnlock(RLock(w))
        order == w1.pluginOrder
    IN  IF Len(order) = 0 THEN [w |-> w1, err |-> "nil", stopErrors |-> <<>>]
        ELSE
        LET h == ExecuteHooks(w1, "shutdown", hookFails)
            r == StopPluginsLoop(h.w, order, Len(order), stopFails, <<>>)
        IN  IF r.w.fatal THEN [w |-> r.w, err |-> "fatal", stopErrors |-> r.stopErrors]
            ELSE IF Len(r.stopErrors) > 0
            THEN [w |-> r.w, err |-> "failed to stop some plugins",
                  stopErrors |-> r.stopErrors]
            ELSE [w |-> r.w, err |-> "nil", stopErrors |-> <<>>]

\* RestartPlugin(ctx, pluginID)
RestartPlugin(w, pluginID, stopFails, fails) ==
    LET sp == StopPlugin(w, pluginID, stopFails)
    IN  IF sp.w.fatal THEN [w |-> sp.w, err |-> "fatal"]
        ELSE IF sp.err # "nil" THEN [w |-> sp.w, err |-> "failed to stop plugin for restart"]
        ELSE
        LET st == StartPlugin(sp.w, pluginID, fails)
        IN  IF st.w.fatal THEN [w |-> st.w, err |-> "fatal"]
            ELSE IF st.err # "nil"
            THEN [w |-> st.w, err |-> "failed to start plugin after restart"]
            ELSE [w |-> st.w, err |-> "nil"]

\* ----------------------------------------------------------------- Loader
\* LoadPlugin(ctx, manifestPath): plugin is the instance the manifest's
\* artifact yields, loadOK whether reading the manifest and opening the
\* artifact succeed.
LoadPlugin(w, plugin, loadOK) ==
    LET pluginID == plugin.Metadata.ID
    IN  IF ~loadOK THEN [w |-> w, err |-> "failed to load plugin"]
        ELSE IF pluginID \in w.loaded THEN [w |-> w, err |-> "ErrPluginAlreadyLoaded"]
        ELSE
        LET r == RegisterPlugin(w, plugin)
        IN  IF r.err # "nil" THEN [w |-> r.w, err |-> "failed to register plugin"]
            ELSE [w |-> [r.w EXCEPT !.loaded = @ \cup {pluginID}], err |-> "nil"]

\* UnloadPlugin(ctx, pluginID): a failed Stop is only logged.
UnloadPlugin(w, pluginID) ==
    IF pluginID \notin w.loaded THEN [w |-> w, err |-> "ErrPluginNotFound"]
    ELSE
    LET g == GetPluginInfo(w, pluginID)
    IN  IF g.w.fatal THEN [w |-> g.w, err |-> "fatal"]
        ELSE IF g.err # "nil" THEN g
        ELSE IF Len(g.w.plugins[pluginID].Dependents) > 0
        THEN [w |-> g.w, err |-> "dependents found"]
        ELSE
        LET w1 == IF g.w.plugins[pluginID].State = "Started"
                  THEN Invoke(g.w, "Stop", pluginID) ELSE g.w
            w2 == Unlock(Wrote([Lock(w1) EXCEPT !.plugins = MapDelete(@, pluginID)],
                               {"plugins"}))
        IN  [w |-> [w2 EXCEPT !.loaded = @ \ {pluginID}], err |-> "nil"]

\* ReloadPlugin(ctx, pluginID): a failed StopPlugin is only logged. The
\* manifest yields the instance it yielded before when loadOK. The calls of
\* the loader are put into the log of calls beside those of the instance.
ReloadPlugin(w, pluginID, stopFails, loadOK, fails) ==
    IF pluginID \notin w.loaded THEN [w |-> w, err |-> "plugin not loaded from manifest"]
    ELSE
    LET sp == StopPlugin(w, pluginID, stopFails)
    IN  IF sp.w.fatal THEN [w |-> sp.w, err |-> "fatal"]
        ELSE
        LET un == UnloadPlugin(Invoke(sp.w, "UnloadPlugin", pluginID), pluginID)
        IN  IF un.w.fatal THEN [w |-> un.w, err |-> "fatal"]
            ELSE IF un.err # "nil"
            THEN [w |-> un.w, err |-> "failed to unload plugin for reload"]
            ELSE
            LET ld == LoadPlugin(Invoke(un.w, "LoadPlugin", pluginID),
                                 w.plugins[pluginID].Instance, loadOK)
            IN  IF ld.err # "nil"
                THEN [w |-> ld.w, err |-> "failed to load plugin after unload"]
                ELSE
                LET st == StartPlugin(ld.w, pluginID, fails)
                IN  IF st.w.fatal THEN [w |-> st.w, err |-> "fatal"]
                    ELSE IF st.err # "nil"
                    THEN [w |-> st.w, err |-> "failed to start plugin after reload"]
                    ELSE [w |-> st.w, err |-> "nil"]

\* ----------------------------------------------------------- HookRegistry
\* The operators below thread a record h through a call: the registry's
\* hooks, byPlugin and stats, and the log of the handlers invoked.
\* The first index of s whose registration has the ID id, 0 if there is none.
IndexOfID(s, id) ==
    IF \E i \in 1..Len(s) : s[i].ID = id
    THEN CHOOSE i \in 1..Len(s) : s[i].ID = id /\ \A j \in 1..(i-1) : s[j].ID # id
    ELSE 0

\* append(s[:i], s[i+1:]...) with i counted from 1.
RemoveAt(s, i) == SubSeq(s, 1, i - 1) \o SubSeq(s, i + 1, Len(s))

\* fmt.Sprintf("%s:%s:%d", pluginID, hookType, time.Now().UnixNano())
HookID(pluginID, hookType, nanos) == <<pluginID, hookType, nanos>>

\* RegisterHook(pluginID, hookType, handler, priority) at the time nanos.
RegisterHook(h, pluginID, hookType, priority, nanos) ==
    LET hookID == HookID(pluginID, hookType, nanos)
        registration == [ID |-> hookID, PluginID |-> pluginID, HookType |-> hookType,
                         Priority |-> priority, Enabled |-> TRUE]
        sorted == SortSlice(Append(MapGet(h.hooks, hookType), registration), "RegisterHook")
    IN  [h |-> [h EXCEPT !.hooks = MapPut(@, hookType, sorted),
                         !.byPlugin = MapPut(@, pluginID,
                                             Append(MapGet(@, pluginID), registration)),
                         !.stats = MapPut(@, hookID, [TotalCalls |-> 0, TotalErrors |-> 0])],
         hookID |-> hookID, err |-> "nil"]

\* UnregisterHook, the search over r.hooks ranged over in the order types,
\* from index k on: the hook type holding hookID, "" if there is none.
RECURSIVE FindHookType(_, _, _, _)
FindHookType(h, hookID, types, k) ==
    IF k > Len(types) THEN ""
    ELSE IF IndexOfID(h.hooks[types[k]], hookID) > 0 THEN types[k]
    ELSE FindHookType(h, hookID, types, k + 1)

\* UnregisterHook(hookID)
UnregisterHook(h, hookID) ==
    LET ht == FindHookType(h, hookID, MapKeys(h.hooks), 1)
    IN  IF ht = "" THEN [h |-> h, err |-> "hook not found"]
        ELSE
        LET i == IndexOfID(h.hooks[ht], hookID)
            pluginID == h.hooks[ht][i].PluginID
            h1 == [h EXCEPT !.hooks[ht] = RemoveAt(@, i)]
            h2 == IF pluginID \in DOMAIN h1.byPlugin
                  THEN LET j == IndexOfID(h1.byPlugin[pluginID], hookID)
                           pluginRegs == IF j > 0 THEN RemoveAt(h1.byPlugin[pluginID], j)
                                         ELSE h1.byPlugin[pluginID]
                       IN  IF Len(pluginRegs) = 0
                           THEN [h1 EXCEPT !.byPlugin = MapDelete(@, pluginID)]
                           ELSE [h1 EXCEPT !.byPlugin[pluginID] = pluginRegs]
                  ELSE h1
        IN  [h |-> [h2 EXCEPT !.stats = MapDelete(@, hookID)], err |-> "nil"]

\* UnregisterPluginHooks, the loop over the plugin's registrations from index
\* k on.
RECURSIVE UnregisterPluginLoop(_, _, _)
UnregisterPluginLoop(h, registrations, k) ==
    IF k > Len(registrations) THEN h
    ELSE LET reg == registrations[k]
             h1 == IF reg.HookType \in DOMAIN h.hooks
                   THEN LET i == IndexOfID(h.hooks[reg.HookType], reg.ID)
                            hookRegs == IF i > 0 THEN RemoveAt(h.hooks[reg.HookType], i)
                                        ELSE h.hooks[reg.HookType]
                        IN  IF Len(hookRegs) = 0
                            THEN [h EXCEPT !.hooks = MapDelete(@, reg.HookType)]
                            ELSE [h EXCEPT !.hooks[reg.HookType] = hookRegs]
                   ELSE h
         IN  UnregisterPluginLoop([h1 EXCEPT !.stats = MapDelete(@, reg.ID)],
                                  registrations, k + 1)

\* UnregisterPluginHooks(pluginID)
UnregisterPluginHooks(h, pluginID) ==
    IF pluginID \notin DOMAIN h.byPlugin THEN [h |-> h, err |-> "nil"]
    ELSE LET h1 == UnregisterPluginLoop(h, h.byPlugin[pluginID], 1)
         IN  [h |-> [h1 EXCEPT !.byPlugin = MapDelete(@, pluginID)], err |-> "nil"]

\* recordHookExecution(hookID, duration, err); failed is err != nil.
recordHookExecution(h, hookID, failed) ==
    LET old == IF hookID \in DOMAIN h.stats THEN h.stats[hookID]
               ELSE [TotalCalls |-> 0, TotalErrors |-> 0]
    IN  [h EXCEPT !.stats = MapPut(@, hookID,
            [TotalCalls  |-> old.TotalCalls + 1,
             TotalErrors |-> IF failed THEN old.TotalErrors + 1 ELSE old.TotalErrors])]

\* A variant of HookBreaksChain that keeps only the check made after a
\* failed handler.
HookBreaksChainOnError(hookCtx) == hookCtx.err /\ hookCtx.StopChain

\* Whether the loop of HookRegistry.ExecuteHooks ends after this handler:
\* StopChain is looked at after a failed handler, and again for every handler.
HookBreaksChain(hookCtx) == (hookCtx.err /\ hookCtx.StopChain) \/ hookCtx.StopChain

\* A variant of HookExecuteLoop that keeps the first error instead of the
\* last.
RECURSIVE HookExecuteLoopFirstError(_, _, _, _, _)
HookExecuteLoopFirstError(h, registrationsCopy, k, outcome, lastError) ==
    IF k > Len(registrationsCopy) THEN [h |-> h, err |-> lastError]
    ELSE LET registration == registrationsCopy[k]
         IN  IF ~registration.Enabled
             THEN HookExecuteLoopFirstError(h, registrationsCopy, k + 1, outcome, lastError)
             ELSE
             LET hookCtx == outcome[registration.ID]
                 h1 == recordHookExecution(
                           [h EXCEPT !.calls = Append(@, registration.ID)],
                           registration.ID, hookCtx.err)
                 lastError1 == IF hookCtx.err /\ lastError = "nil" THEN registration.ID
                               ELSE lastError
             IN  IF HookBreaksChain(hookCtx) THEN [h |-> h1, err |-> lastError1]
                 ELSE HookExecuteLoopFirstError(h1, registrationsCopy, k + 1, outcome,
                                                lastError1)

\* A map[string]interface{} is a reference: the model names the map the
\* caller passes Payload, a map a handler makes by the handler's hook ID,
\* and a nil map NilMap. h.holds are the handlers that have stored into the
\* map h.data.
Payload == <<"payload">>

NilMap == <<"nil">>

\* What a handler does with hookCtx.Data: nothing, store into the map it
\* holds, assign a map of its own making, or assign nil.
HookDataChanges == {"keep", "store", "assign", "nil"}

\* hookCtx.Data after the handler of registration id has run.
HookCtxData(h, id, hookCtx) ==
    CASE hookCtx.Data = "assign" -> id
      [] hookCtx.Data = "nil" -> NilMap
      [] OTHER -> h.data

\* What the map h.data holds after the handler of registration id has run.
HookStored(h, id, hookCtx) ==
    IF hookCtx.Data = "store" THEN Append(h.holds, id) ELSE h.holds

\* data for the next handler: if hookCtx.Modified && hookCtx.Data != nil
\* { data = hookCtx.Data }
HookNextData(h, id, hookCtx) ==
    IF hookCtx.Modified /\ HookCtxData(h, id, hookCtx) # NilMap
    THEN HookCtxData(h, id, hookCtx) ELSE h.data

\* The loop of HookRegistry.ExecuteHooks over registrationsCopy from index k
\* on. outcome[id] is what the handler of registration id does in this
\* dispatch: whether it returns an error, whether it sets StopChain and
\* Modified and what it does with hookCtx.Data. h.data is the loop's data,
\* h.received what each handler found in hookCtx.Data: the map and what had
\* been stored into it. lastError is "nil" or the ID of the last
\* registration whose handler failed.
RECURSIVE HookExecuteLoop(_, _, _, _, _)
HookExecuteLoop(h, registrationsCopy, k, outcome, lastError) ==
    IF k > Len(registrationsCopy) THEN [h |-> h, err |-> lastError]
    ELSE LET registration == registrationsCopy[k]
         IN  IF ~registration.Enabled
             THEN HookExecuteLoop(h, registrationsCopy, k + 1, outcome, lastError)
             ELSE
             LET hookCtx == outcome[registration.ID]
                 h1 == recordHookExecution(
                           [h EXCEPT !.calls = Append(@, registration.ID),
                                     !.received = Append(@, [map |-> h.data,
                                                             holds |-> h.holds]),
                                     !.holds = HookStored(h, registration.ID, hookCtx)],
                           registration.ID, hookCtx.err)
                 h2 == [h1 EXCEPT !.data = HookNextData(h, registration.ID, hookCtx),
                                  !.holds = IF HookNextData(h, registration.ID, hookCtx) = h.data
                                            THEN @ ELSE <<>>]
                 lastError1 == IF hookCtx.err THEN registration.ID ELSE lastError
             IN  IF HookBreaksChain(hookCtx) THEN [h |-> h1, err |-> lastError1]
                 ELSE HookExecuteLoop(h2, registrationsCopy, k + 1, outcome, lastError1)

\* HookRegistry.ExecuteHooks(ctx, hookType, data)
HookExecuteHooks(h, hookType, outcome) ==
    IF hookType \notin DOMAIN h.hooks \/ Len(MapGet(h.hooks, hookType)) = 0
    THEN [h |-> h, err |-> "nil"]
    ELSE HookExecuteLoop(h, h.hooks[hookType], 1, outcome, "nil")

\* ---------------------------------------------- a stand-alone graph object
NoCall == [op |-> "none"]

InitGraph ==
    /\ gnodes = EmptyGraph
    /\ gret = NoCall
    /\ gcalls = 0

\* AddPlugin reads ID, Dependencies and Requires only.
GraphMetadatas == {m \in Metadatas : m.Provides = <<>>}

GraphAddPlugin ==
    \E metadata \in GraphMetadatas :
        /\ gcalls < MaxGraphCalls
        /\ gcalls' = gcalls + 1
        /\ gnodes' = AddPlugin(gnodes, metadata)
        /\ gret' = [op |-> "AddPlugin", id |-> metadata.ID]
        /\ UNCHANGED <<rvars, hvars, svars, dvars, lvars>>

GraphAddDependency ==
    /\ gcalls < MaxGraphCalls
    /\ \E from \in PluginIDs, to \in PluginIDs :
          \E r \in {AddDependency(gnodes, from, to)} :
              /\ gcalls' = gcalls + 1
              /\ gnodes' = r.nodes
              /\ gret' = [op |-> "AddDependency", from |-> from, to |-> to, err |-> r.err]
              /\ UNCHANGED <<rvars, hvars, svars, dvars, lvars>>

GraphDetectCycle ==
    \E order \in Perms(DOMAIN gnodes) :
        \E r \in {DetectCycle(gnodes, order)} :
            /\ gret' = [op |-> "DetectCycle", cycle |-> r.cycle, err |-> r.err]
            /\ UNCHANGED <<gnodes, gcalls, rvars, hvars, svars, dvars, lvars>>

GraphTopologicalSort ==
    \E order \in Perms(DOMAIN gnodes) :
        \E r \in {TopologicalSort(gnodes, order)} :
            /\ gret' = [op |-> "TopologicalSort", order |-> r.order, err |-> r.err]
            /\ UNCHANGED <<gnodes, gcalls, rvars, hvars, svars, dvars, lvars>>

\* ------------------------------------------------ registry, loader, lifecycle
\* The one plugin a plugin's manifest may name as a dependency.
DepTarget(id) == CASE id = "A" -> "C" [] id = "B" -> "A" [] OTHER -> "B"

\* The metadata the lifecycle model registers. A plugin declares nothing, or
\* a dependency on DepTarget (B -> A, C -> B is a chain and with A -> C a
\* cycle), or, in place of it: A a provided capability, B the dependency as
\* an optional one, C a required capability.
RegistryMetadatas ==
    {m \in Metadatas :
        /\ \A i \in 1..Len(m.Dependencies) :
               /\ m.Dependencies[i].PluginID = DepTarget(m.ID)
               /\ m.Dependencies[i].Optional => m.ID = "B"
        /\ Len(m.Provides) > 0 => m.ID = "A"
        /\ Len(m.Requires) > 0 => m.ID = "C"
        /\ Len(m.Dependencies) + Len(m.Provides) + Len(m.Requires) <= 1}

\* What GetHooks() of an instance returns: A and B declare one shutdown
\* handler, C declares none.
DeclaredHooks(id) ==
    IF id = "C" THEN EmptyMap ELSE [t \in {"shutdown"} |-> <<DeclaredHandler(id)>>]

\* The plugin instances the model registers.
Instances == {[Metadata |-> m, GetHooks |-> DeclaredHooks(m.ID)] : m \in RegistryMetadatas}

\* The plugins that are registered directly, and those the loader loads from
\* a manifest.
DirectIDs == {"A", "B"}

ManifestIDs == {"B", "C"}

AllHandlers == ApiHandlers \cup {DeclaredHandler(id) : id \in PluginIDs}

\* The registry, the loader and the mutex as the next operation finds them.
World ==
    [plugins |-> plugins, pluginOrder |-> pluginOrder, hooks |-> hooks,
     capabilities |-> capabilities, loaded |-> loaded, mu |-> mu, fatal |-> fatal,
     unlockFatal |-> unlockFatal, calls |-> <<>>, writes |-> {}]

\* The state an operation leaves behind.
Commit(w) ==
    /\ plugins' = w.plugins
    /\ pluginOrder' = w.pluginOrder
    /\ hooks' = w.hooks
    /\ capabilities' = w.capabilities
    /\ loaded' = w.loaded
    /\ mu' = w.mu
    /\ fatal' = w.fatal
    /\ calls' = w.calls
    /\ writes' = w.writes
    /\ UNCHANGED unlockFatal

\* NewPluginRegistry, NewLoader, NewLifecycleManager.
InitRegistry ==
    /\ plugins = EmptyMap
    /\ pluginOrder = <<>>
    /\ hooks = EmptyMap
    /\ capabilities = EmptyMap
    /\ loaded = {}
    /\ mu = [readers |-> 0, writer |-> FALSE]
    /\ fatal = FALSE
    /\ calls = <<>>
    /\ writes = {}
    /\ ret = NoCall
    /\ nregs = 0
    /\ nops = 0

DoRegisterPlugin ==
    /\ ~fatal
    /\ nops = 0
    /\ nregs < MaxRegs
    /\ \E plugin \in {i \in Instances : i.Metadata.ID \in DirectIDs} :
          \E r \in {RegisterPlugin(World, plugin)} :
              /\ nregs' = nregs + 1
              /\ Commit(r.w)
              /\ ret' = [op |-> "RegisterPlugin", id |-> plugin.Metadata.ID, err |-> r.err]
              /\ UNCHANGED <<nops, gvars, hvars, svars, dvars, lvars>>

DoLoadPlugin ==
    /\ ~fatal
    /\ nops = 0
    /\ nregs < MaxRegs
    /\ \E plugin \in {i \in Instances : i.Metadata.ID \in ManifestIDs}, loadOK \in BOOLEAN :
          \E r \in {LoadPlugin(World, plugin, loadOK)} :
              /\ nregs' = nregs + 1
              /\ Commit(r.w)
              /\ ret' = [op |-> "LoadPlugin", id |-> plugin.Metadata.ID, err |-> r.err]
              /\ UNCHANGED <<nops, gvars, hvars, svars, dvars, lvars>>

DoUnloadPlugin ==
    /\ ~fatal
    /\ nops < MaxOps
    /\ \E pluginID \in PluginIDs :
          \E r \in {UnloadPlugin(World, pluginID)} :
              /\ nops' = nops + 1
              /\ Commit(r.w)
              /\ ret' = [op |-> "UnloadPlugin", id |-> pluginID, err |-> r.err]
              /\ UNCHANGED <<nregs, gvars, hvars, svars, dvars, lvars>>

\* The registrations the registry holds, over all hook types.
HookCount == LET Sum[S \in SUBSET DOMAIN hooks] ==
                     IF S = {} THEN 0
                     ELSE LET t == CHOOSE x \in S : TRUE IN Len(hooks[t]) + Sum[S \ {t}]
             IN  Sum[DOMAIN hooks]

DoAddHook ==
    /\ ~fatal
    /\ HookCount < MaxAddHooks
    /\ \E pluginID \in PluginIDs, hookType \in HookTypes, handler \in ApiHandlers,
          priority \in ApiPriorities :
          \E r \in {AddHook(World, pluginID, hookType, handler, priority)} :
              /\ Commit(r.w)
              /\ ret' = [op |-> "AddHook", id |-> pluginID, handler |-> handler,
                         priority |-> priority, err |-> r.err]
              /\ UNCHANGED <<nregs, nops, gvars, hvars, svars, dvars, lvars>>

\* The handlers registered for a hook type.
RegisteredHandlers(hookType) ==
    {MapGet(hooks, hookType)[i].Handler : i \in 1..Len(MapGet(hooks, hookType))}

DoExecuteHooks ==
    /\ ~fatal
    /\ \E hookType \in HookTypes :
          \E failing \in SUBSET RegisteredHandlers(hookType) :
              \E r \in {ExecuteHooks(World, hookType, failing)} :
                  /\ Commit(r.w)
                  /\ ret' = [op |-> "ExecuteHooks", hookType |-> hookType,
                             failing |-> failing, err |-> r.err]
                  /\ UNCHANGED <<nregs, nops, gvars, hvars, svars, dvars, lvars>>

DoValidateDependencies ==
    /\ ~fatal
    /\ nops < MaxOps
    /\ \E r \in {ValidateDependencies(World)} :
          /\ nops' = nops + 1
          /\ Commit(r.w)
          /\ ret' = [op |-> "ValidateDependencies", err |-> r.err, missing |-> r.missing]
          /\ UNCHANGED <<nregs, gvars, hvars, svars, dvars, lvars>>

\* The orders in which the lifecycle model ranges over a map with key set S:
\* ascending and descending, so that every two keys are met in both orders.
MapOrders(S) == {SortedIDs(S), ReverseResult(SortedIDs(S))}

DoResolveDependencies ==
    /\ ~fatal
    /\ nops < MaxOps
    /\ \E order \in MapOrders(DOMAIN plugins) :
          \E r \in {ResolveDependencies(World, order)} :
              /\ nops' = nops + 1
              /\ Commit(r.w)
              /\ ret' = [op |-> "ResolveDependencies", order |-> r.order, err |-> r.err]
              /\ UNCHANGED <<nregs, gvars, hvars, svars, dvars, lvars>>

\* The one instance method that fails during a start: none, or Init or Start
\* of one plugin.
NoFail == <<"-", "none">>

FailAts == {NoFail} \cup (PluginIDs \X {"Init", "Start"})

DoStartPlugin ==
    /\ ~fatal
    /\ nops < MaxOps
    /\ \E pluginID \in PluginIDs, fails \in {"none", "Init", "Start"} :
          \E r \in {StartPlugin(World, pluginID, fails)} :
              /\ nops' = nops + 1
              /\ Commit(r.w)
              /\ ret' = [op |-> "StartPlugin", id |-> pluginID, err |-> r.err]
              /\ UNCHANGED <<nregs, gvars, hvars, svars, dvars, lvars>>

\* StartPlugins(World, order, failAt, healthCheck, unready), with the part
\* that does not depend on the last three computed once for them all.
\* Ready() is asked only in a health check.
DoStartPlugins ==
    /\ ~fatal
    /\ nops < MaxOps
    /\ \E order \in MapOrders(DOMAIN plugins) :
          \E rd \in {StartPluginsResolve(World, order)} :
              \E failAt \in {f \in FailAts : f[1] \in (DOMAIN plugins) \cup {"-"}},
                 health \in {<<FALSE, {}>>, <<TRUE, {}>>, <<TRUE, PluginIDs>>} :
                  \E r \in {StartPluginsStart(rd, failAt, health[1], health[2])} :
                      /\ nops' = nops + 1
                      /\ Commit(r.w)
                      /\ ret' = [op |-> "StartPlugins", err |-> r.err, missing |-> r.missing]
                      /\ UNCHANGED <<nregs, gvars, hvars, svars, dvars, lvars>>

DoStopPlugin ==
    /\ ~fatal
    /\ nops < MaxOps
    /\ \E pluginID \in PluginIDs, stopFails \in BOOLEAN :
          \E r \in {StopPlugin(World, pluginID, IF stopFails THEN {pluginID} ELSE {})} :
              /\ nops' = nops + 1
              /\ Commit(r.w)
              /\ ret' = [op |-> "StopPlugin", id |-> pluginID, err |-> r.err]
              /\ UNCHANGED <<nregs, gvars, hvars, svars, dvars, lvars>>

DoStopPlugins ==
    /\ ~fatal
    /\ nops < MaxOps
    /\ \E stopFails \in SUBSET DOMAIN plugins,
          hookFails \in SUBSET RegisteredHandlers("shutdown") :
          \E r \in {StopPlugins(World, stopFails, hookFails)} :
              /\ nops' = nops + 1
              /\ Commit(r.w)
              /\ ret' = [op |-> "StopPlugins", err |-> r.err, stopErrors |-> r.stopErrors]
              /\ UNCHANGED <<nregs, gvars, hvars, svars, dvars, lvars>>

DoRestartPlugin ==
    /\ ~fatal
    /\ nops < MaxOps
    /\ \E pluginID \in PluginIDs, stopFails \in BOOLEAN, fails \in {"none", "Init", "Start"} :
          \E r \in {RestartPlugin(World, pluginID,
                                  IF stopFails THEN {pluginID} ELSE {}, fails)} :
              /\ nops' = nops + 1
              /\ Commit(r.w)
              /\ ret' = [op |-> "RestartPlugin", id |-> pluginID, err |-> r.err]
              /\ UNCHANGED <<nregs, gvars, hvars, svars, dvars, lvars>>

DoReloadPlugin ==
    /\ ~fatal
    /\ nops < MaxOps
    /\ \E pluginID \in PluginIDs, stopFails \in BOOLEAN, loadOK \in BOOLEAN,
          fails \in {"none", "Init", "Start"} :
          \E r \in {ReloadPlugin(World, pluginID, IF stopFails THEN {pluginID} ELSE {},
                                 loadOK, fails)} :
              /\ nops' = nops + 1
              /\ Commit(r.w)
              /\ ret' = [op |-> "ReloadPlugin", id |-> pluginID, err |-> r.err,
                         stopFails |-> stopFails]
              /\ UNCHANGED <<nregs, gvars, hvars, svars, dvars, lvars>>

\* ------------------------------------------------------ a HookRegistry
\* The plugins and hook types the hook-registry model registers for, and
\* the priorities it registers with.
HookPluginIDs == {"A", "B"}

HookEventTypes == {"query.execute", "row.insert"}

HookPriorities == {10, 90}

\* What a handler may do in one dispatch: a handler that fails or sets
\* StopChain leaves hookCtx.Data alone, and one that assigns nil or sets
\* Modified does so for a change to be passed on.
HookOutcomes ==
    {o \in [err : BOOLEAN, StopChain : BOOLEAN, Modified : BOOLEAN, Data : HookDataChanges] :
        /\ (o.err \/ o.StopChain) => (~o.Modified /\ o.Data = "keep")
        /\ o.Data = "nil" => o.Modified
        /\ o.Data = "keep" => ~o.Modified}

\* The hook registry as the next call finds it.
HookWorld ==
    [hooks |-> hrHooks, byPlugin |-> byPlugin, stats |-> stats, calls |-> <<>>,
     data |-> Payload, holds |-> <<>>, received |-> <<>>]

HookCommit(h) ==
    /\ hrHooks' = h.hooks
    /\ byPlugin' = h.byPlugin
    /\ stats' = h.stats
    /\ hrCalls' = h.calls
    /\ hrReceived' = h.received

\* NewHookRegistry()
InitHooks ==
    /\ hrHooks = EmptyMap
    /\ byPlugin = EmptyMap
    /\ stats = EmptyMap
    /\ now = 0
    /\ hrCalls = <<>>
    /\ hrReceived = <<>>
    /\ hrRet = NoCall
    /\ ndispatch = 0

\* The IDs of the registrations the registry holds.
RegisteredHookIDs ==
    UNION {{byPlugin[p][i].ID : i \in 1..Len(byPlugin[p])} : p \in DOMAIN byPlugin}

\* An ID RegisterHook has never returned.
UnknownHookID == HookID("A", "query.execute", 0)

\* The clock has advanced by the time of each RegisterHook call.
DoRegisterHook ==
    /\ now < MaxHooks
    /\ \E pluginID \in HookPluginIDs, hookType \in HookEventTypes, priority \in HookPriorities :
          \E r \in {RegisterHook(HookWorld, pluginID, hookType, priority, now + 1)} :
              /\ now' = now + 1
              /\ HookCommit(r.h)
              /\ hrRet' = [op |-> "RegisterHook", hookID |-> r.hookID, err |-> r.err]
              /\ UNCHANGED <<ndispatch, gvars, rvars, svars, dvars, lvars>>

DoUnregisterHook ==
    \E hookID \in RegisteredHookIDs \cup {UnknownHookID} :
        \E r \in {UnregisterHook(HookWorld, hookID)} :
            /\ HookCommit(r.h)
            /\ hrRet' = [op |-> "UnregisterHook", hookID |-> hookID, err |-> r.err]
            /\ UNCHANGED <<now, ndispatch, gvars, rvars, svars, dvars, lvars>>

DoUnregisterPluginHooks ==
    \E pluginID \in HookPluginIDs :
        \E r \in {UnregisterPluginHooks(HookWorld, pluginID)} :
            /\ HookCommit(r.h)
            /\ hrRet' = [op |-> "UnregisterPluginHooks", pluginID |-> pluginID, err |-> r.err]
            /\ UNCHANGED <<now, ndispatch, gvars, rvars, svars, dvars, lvars>>

\* The IDs of the registrations of a hook type.
HookIDsOf(hookType) ==
    {MapGet(hrHooks, hookType)[i].ID : i \in 1..Len(MapGet(hrHooks, hookType))}

DoHookExecuteHooks ==
    /\ ndispatch < MaxDispatch
    /\ \E hookType \in HookEventTypes :
          \E outcome \in [HookIDsOf(hookType) -> HookOutcomes] :
              \E r \in {HookExecuteHooks(HookWorld, hookType, outcome)} :
                  /\ ndispatch' = ndispatch + 1
                  /\ HookCommit(r.h)
                  /\ hrRet' = [op |-> "ExecuteHooks", hookType |-> hookType,
                               registrations |-> MapGet(hrHooks, hookType),
                               outcome |-> outcome, err |-> r.err]
                  /\ UNCHANGED <<now, gvars, rvars, svars, dvars, lvars>>

NextHookRegistry ==
    \/ DoRegisterHook
    \/ DoUnregisterHook
    \/ DoUnregisterPluginHooks
    \/ DoHookExecuteHooks

\* ------------------------------------------- a HookRegistry with long lists
\* A list RegisterHook has built for one hook type: n registrations of
\* plugin A, the first k of priority 90 and the others of priority 10, each
\* group in the order of registration.
ListedRegistrations(n, k) ==
    [i \in 1..n |-> [ID |-> HookID("A", "query.execute", i), PluginID |-> "A",
                     HookType |-> "query.execute",
                     Priority |-> IF i <= k THEN 90 ELSE 10, Enabled |-> TRUE]]

\* The hook registry after MaxListed - 1 or MaxListed RegisterHook calls for
\* one hook type.
InitLongHooks ==
    \E n \in {MaxListed - 1, MaxListed} :
        \E k \in 0..n :
            /\ hrHooks = [t \in {"query.execute"} |-> ListedRegistrations(n, k)]
            /\ byPlugin = [p \in {"A"} |-> ListedRegistrations(n, k)]
            /\ stats = [id \in {HookID("A", "query.execute", i) : i \in 1..n} |->
                           [TotalCalls |-> 0, TotalErrors |-> 0]]
            /\ now = n
            /\ hrCalls = <<>>
            /\ hrReceived = <<>>
            /\ hrRet = NoCall
            /\ ndispatch = 0

\* RegisterHook on a list that may have grown beyond what sort.Slice sorts
\* by insertion: the list is left in one of the orders sort.Slice may leave.
DoRegisterHookLong ==
    /\ now <= MaxListed
    /\ \E pluginID \in HookPluginIDs, priority \in HookPriorities :
          \E r \in {RegisterHook(HookWorld, pluginID, "query.execute", priority, now + 1)} :
              \E sorted \in SliceOutcomes(Append(MapGet(hrHooks, "query.execute"),
                                                  r.h.byPlugin[pluginID][Len(r.h.byPlugin[pluginID])]),
                                           "RegisterHook") :
                  /\ now' = now + 1
                  /\ HookCommit([r.h EXCEPT !.hooks["query.execute"] = sorted])
                  /\ hrRet' = [op |-> "RegisterHook", hookID |-> r.hookID, err |-> r.err]
                  /\ UNCHANGED <<ndispatch, gvars, rvars, svars, dvars, lvars>>

NextLongHooks ==
    \/ DoRegisterHookLong
    \/ DoUnregisterPluginHooks

\* ---------------------------------------------------------------- Sandbox
\* The Execute calls a sandbox receives, in the order they are made.
Execs == 1..MaxExecs

\* The ResourceLimits the model constructs a sandbox with: zero switches the
\* memory or the open-files limit off.
LimitChoices ==
    {[MaxCPUTime |-> 1, MaxMemory |-> 1, MaxOpenFiles |-> 0],
     [MaxCPUTime |-> 1, MaxMemory |-> 0, MaxOpenFiles |-> 1]}

NoUsage == [cpuUsage |-> 0, memoryUsage |-> 0, openFiles |-> 0]

\* What updateResourceUsage may read: the CPU time of the process, the
\* allocated heap and the open file descriptors, all below a limit of 1 or
\* one of them above it.
Readings ==
    {NoUsage, [NoUsage EXCEPT !.cpuUsage = 2], [NoUsage EXCEPT !.memoryUsage = 2],
     [NoUsage EXCEPT !.openFiles = 2]}

\* The cause recorded for a context nobody has cancelled.
NoCause == [by |-> "none", monitor |-> 0, usage |-> NoUsage]

\* exceedsLimits()
exceedsLimits(usage, limits) ==
    IF usage.cpuUsage > limits.MaxCPUTime THEN TRUE
    ELSE IF usage.memoryUsage > limits.MaxMemory /\ limits.MaxMemory > 0 THEN TRUE
    ELSE IF usage.openFiles > limits.MaxOpenFiles /\ limits.MaxOpenFiles > 0 THEN TRUE
    ELSE FALSE

\* applyLimits(): sysFail names the system call that fails, if any.
applyLimits(limits, sysFail) ==
    IF limits.MaxMemory > 0 /\ sysFail = "setrlimit(AS)" THEN "failed to set memory limit"
    ELSE IF limits.MaxOpenFiles > 0 /\ sysFail = "getrlimit(NOFILE)"
    THEN "failed to get file descriptor limit"
    ELSE IF limits.MaxOpenFiles > 0 /\ sysFail = "setrlimit(NOFILE)"
    THEN "failed to set file limit"
    ELSE "nil"

\* A variant of Recover for a goroutine that has no deferred recover().
RecoverNothing(r) == "nil"

\* recover() in the function the goroutine running fn defers: the value fn
\* panicked with.
Recover(r) == r

\* A variant of ErrCancelled for an Execute that reports a cancelled wait as
\* a success.
ErrCancelledSilent(ctxErr) == "nil"

\* The error Execute makes of ctx.Err().
ErrCancelled(ctxErr) ==
    IF ctxErr = "Canceled" THEN "execution cancelled: context canceled"
    ELSE "execution cancelled: context deadline exceeded"

\* cancel() of the context Execute derived for execution e: the first call
\* cancels it, later calls do nothing. cause says who calls.
CancelCtx(ctx, causes, e, cause) ==
    IF ctx[e] = "live"
    THEN [ctx |-> [ctx EXCEPT ![e] = "Canceled"], causes |-> [causes EXCEPT ![e] = cause]]
    ELSE [ctx |-> ctx, causes |-> causes]

\* NewSandbox(pluginID, limits)
InitSandbox ==
    /\ sbLimits = <<>>
    /\ sbCancel = 0
    /\ sbUsage = NoUsage
    /\ sbHost = "running"
    /\ exPc = [e \in Execs |-> "idle"]
    /\ exRet = [e \in Execs |-> "-"]
    /\ exVia = [e \in Execs |-> "-"]
    /\ exCtx = [e \in Execs |-> "live"]
    /\ exCause = [e \in Execs |-> NoCause]
    /\ exErrCh = [e \in Execs |-> <<>>]
    /\ exWorker = [e \in Execs |-> "none"]
    /\ exFn = [e \in Execs |-> "-"]
    /\ exTimer = [e \in Execs |-> FALSE]
    /\ exMonitor = [e \in Execs |-> "none"]
    /\ exDone = [e \in Execs |-> FALSE]

\* errCh := make(chan error, 1): the places of the channel's buffer.
ErrChCap == 1

\* A variant of CanSend for a channel made without a buffer: a send goes
\* through only while Execute waits in its select.
CanSendUnbuffered(e) == exPc[e] = "select" /\ exErrCh[e] = <<>>

\* Whether a send to errCh of execution e goes through at once: the buffer
\* has a free place. Otherwise the sending goroutine blocks.
CanSend(e) == Len(exErrCh[e]) < ErrChCap

SbNewSandbox ==
    /\ sbLimits = <<>>
    /\ \E limits \in LimitChoices : sbLimits' = <<limits>>
    /\ UNCHANGED <<sbCancel, sbUsage, sbHost, exPc, exRet, exVia, exCtx, exCause, exErrCh,
                   exWorker, exFn, exTimer, exMonitor, exDone, gvars, rvars, hvars, dvars, lvars>>

\* Execute up to its select: the context and its cancel function, the
\* monitor goroutine, the goroutine that runs fn, the timer. The caller
\* makes the call once the call before it has returned.
SbExecute ==
    /\ sbHost = "running"
    /\ sbLimits # <<>>
    /\ \E e \in Execs :
          /\ exPc[e] = "idle"
          /\ \A j \in 1..(e - 1) : exPc[j] = "returned"
          /\ sbCancel' = e
          /\ exPc' = [exPc EXCEPT ![e] = "select"]
          /\ exMonitor' = [exMonitor EXCEPT ![e] = "running"]
          /\ exWorker' = [exWorker EXCEPT ![e] = "applyLimits"]
    /\ UNCHANGED <<sbLimits, sbUsage, sbHost, exRet, exVia, exCtx, exCause, exErrCh,
                   exFn, exTimer, exDone, gvars, rvars, hvars, dvars, lvars>>

\* The goroutine that runs fn: applyLimits, and its error sent to errCh.
SbApplyLimits ==
    /\ sbHost = "running"
    /\ \E e \in Execs, sysFail \in {"none", "setrlimit(AS)", "getrlimit(NOFILE)",
                                    "setrlimit(NOFILE)"} :
          /\ exWorker[e] = "applyLimits"
          /\ \E err \in {applyLimits(sbLimits[1], sysFail)} :
                IF err # "nil"
                THEN /\ CanSend(e)
                     /\ exErrCh' = [exErrCh EXCEPT ![e] = Append(@, err)]
                     /\ exWorker' = [exWorker EXCEPT ![e] = "exited"]
                     /\ exFn' = [exFn EXCEPT ![e] = "not called"]
                ELSE /\ exWorker' = [exWorker EXCEPT ![e] = "fn"]
                     /\ UNCHANGED <<exErrCh, exFn>>
    /\ UNCHANGED <<sbLimits, sbCancel, sbUsage, sbHost, exPc, exRet, exVia, exCtx, exCause,
                   exTimer, exMonitor, exDone, gvars, rvars, hvars, dvars, lvars>>

\* fn returns, nil or an error, and the goroutine sends that to errCh.
SbFnReturn ==
    /\ sbHost = "running"
    /\ \E e \in Execs, result \in {"nil", "fn error"} :
          /\ exWorker[e] = "fn"
          /\ CanSend(e)
          /\ exErrCh' = [exErrCh EXCEPT ![e] = Append(@, result)]
          /\ exWorker' = [exWorker EXCEPT ![e] = "exited"]
          /\ exFn' = [exFn EXCEPT ![e] = result]
    /\ UNCHANGED <<sbLimits, sbCancel, sbUsage, sbHost, exPc, exRet, exVia, exCtx, exCause,
                   exTimer, exMonitor, exDone, gvars, rvars, hvars, dvars, lvars>>

\* fn panics: the deferred function recovers the value and sends an error
\* to errCh; a panic nothing recovers ends the process.
SbFnPanic ==
    /\ sbHost = "running"
    /\ \E e \in Execs :
          /\ exWorker[e] = "fn"
          /\ exWorker' = [exWorker EXCEPT ![e] = "exited"]
          /\ exFn' = [exFn EXCEPT ![e] = "panic"]
          /\ IF Recover("panic") # "nil"
             THEN /\ CanSend(e)
                  /\ exErrCh' = [exErrCh EXCEPT ![e] = Append(@, "plugin panic")]
                  /\ UNCHANGED sbHost
             ELSE /\ sbHost' = "crashed"
                  /\ UNCHANGED exErrCh
    /\ UNCHANGED <<sbLimits, sbCancel, sbUsage, exPc, exRet, exVia, exCtx, exCause,
                   exTimer, exMonitor, exDone, gvars, rvars, hvars, dvars, lvars>>

\* The caller's context is cancelled, or its deadline passes, while Execute
\* waits.
SbCallerCancel ==
    /\ sbHost = "running"
    /\ \E e \in Execs, ctxErr \in {"Canceled", "DeadlineExceeded"} :
          /\ exPc[e] = "select"
          /\ exCtx[e] = "live"
          /\ exCtx' = [exCtx EXCEPT ![e] = ctxErr]
          /\ exCause' = [exCause EXCEPT ![e] = [NoCause EXCEPT !.by = "caller"]]
    /\ UNCHANGED <<sbLimits, sbCancel, sbUsage, sbHost, exPc, exRet, exVia, exErrCh,
                   exWorker, exFn, exTimer, exMonitor, exDone, gvars, rvars, hvars, dvars, lvars>>

\* MaxCPUTime has passed since Execute reached its select.
SbTimer ==
    /\ sbHost = "running"
    /\ \E e \in Execs :
          /\ exPc[e] = "select"
          /\ ~exTimer[e]
          /\ exTimer' = [exTimer EXCEPT ![e] = TRUE]
    /\ UNCHANGED <<sbLimits, sbCancel, sbUsage, sbHost, exPc, exRet, exVia, exCtx, exCause,
                   exErrCh, exWorker, exFn, exMonitor, exDone, gvars, rvars, hvars, dvars, lvars>>

\* monitorResources, the cases <-ctx.Done() and <-done of its select.
SbMonitorExit ==
    /\ sbHost = "running"
    /\ \E e \in Execs :
          /\ exMonitor[e] = "running"
          /\ exCtx[e] # "live" \/ exDone[e]
          /\ exMonitor' = [exMonitor EXCEPT ![e] = "exited"]
    /\ UNCHANGED <<sbLimits, sbCancel, sbUsage, sbHost, exPc, exRet, exVia, exCtx, exCause,
                   exErrCh, exWorker, exFn, exTimer, exDone, gvars, rvars, hvars, dvars, lvars>>

\* monitorResources, the case <-ticker.C of its select, which may be taken
\* whenever the ticker has fired, whatever else is ready: updateResourceUsage,
\* exceedsLimits and, past a limit, the cancel function the sandbox holds.
SbMonitorTick ==
    /\ sbHost = "running"
    /\ \E e \in Execs, usage \in Readings :
          /\ exMonitor[e] = "running"
          /\ sbUsage' = usage
          /\ IF exceedsLimits(usage, sbLimits[1])
             THEN /\ exMonitor' = [exMonitor EXCEPT ![e] = "exited"]
                  /\ \E c \in {IF sbCancel # 0
                               THEN CancelCtx(exCtx, exCause, sbCancel,
                                              [by |-> "monitor", monitor |-> e, usage |-> usage])
                               ELSE [ctx |-> exCtx, causes |-> exCause]} :
                        /\ exCtx' = c.ctx
                        /\ exCause' = c.causes
             ELSE UNCHANGED <<exMonitor, exCtx, exCause>>
    /\ UNCHANGED <<sbLimits, sbCancel, sbHost, exPc, exRet, exVia, exErrCh,
                   exWorker, exFn, exTimer, exDone, gvars, rvars, hvars, dvars, lvars>>

\* The cases of Execute's select that are ready.
ReadyCases(e) ==
    (IF exErrCh[e] # <<>> THEN {"errCh"} ELSE {})
        \cup (IF exCtx[e] # "live" THEN {"ctx.Done"} ELSE {})
        \cup (IF exTimer[e] THEN {"time.After"} ELSE {})

\* What Execute returns through the case via of its select.
SelectErr(e, via) ==
    IF via = "errCh" THEN Head(exErrCh[e])
    ELSE IF via = "ctx.Done" THEN ErrCancelled(exCtx[e])
    ELSE "CPU time limit exceeded"

\* Execute from its select on: one of the ready cases, close(monitorDone),
\* the deferred cancel(), return.
SbSelect ==
    /\ sbHost = "running"
    /\ \E e \in Execs :
          /\ exPc[e] = "select"
          /\ \E via \in ReadyCases(e) :
                /\ exRet' = [exRet EXCEPT ![e] = SelectErr(e, via)]
                /\ exVia' = [exVia EXCEPT ![e] = via]
                /\ exErrCh' = [exErrCh EXCEPT ![e] = IF via = "errCh" THEN Tail(@) ELSE @]
          /\ exDone' = [exDone EXCEPT ![e] = TRUE]
          /\ \E c \in {CancelCtx(exCtx, exCause, e, [NoCause EXCEPT !.by = "return"])} :
                /\ exCtx' = c.ctx
                /\ exCause' = c.causes
          /\ exPc' = [exPc EXCEPT ![e] = "returned"]
    /\ UNCHANGED <<sbLimits, sbCancel, sbUsage, sbHost, exWorker, exFn, exTimer,
                   exMonitor, gvars, rvars, hvars, dvars, lvars>>

NextSandbox ==
    \/ SbNewSandbox
    \/ SbExecute
    \/ SbApplyLimits
    \/ SbFnReturn
    \/ SbFnPanic
    \/ SbCallerCancel
    \/ SbTimer
    \/ SbMonitorExit
    \/ SbMonitorTick
    \/ SbSelect

\* ------------------------------------------------- hook dispatch in steps
\* ExecuteHooks of either registry taken lock by lock and handler by
\* handler, with the calls other goroutines and the handlers themselves make
\* to the registry in between. One hook type; plugin A is registered.
FreeMutex == [readers |-> 0, writer |-> FALSE]

\* A variant of ReleaseRead that keeps the read lock, as a deferred RUnlock
\* would until ExecuteHooks returns.
ReleaseReadDeferred(m) == m

\* r.mu.RUnlock() after the list has been read.
ReleaseRead(m) == [m EXCEPT !.readers = @ - 1]

\* The zero value in a backing array's unused place.
NoRegistration == [PluginID |-> "", Handler |-> 0, Priority |-> 0]

NilSlice == [arr |-> 0, len |-> 0]

\* The elements of a slice and its capacity.
SliceElems(arrs, sl) == IF sl.arr = 0 THEN <<>> ELSE SubSeq(arrs[sl.arr], 1, sl.len)

SliceCap(arrs, sl) == IF sl.arr = 0 THEN 0 ELSE Len(arrs[sl.arr])

\* The capacity append gives a slice of pointers that has outgrown cap: 1,
\* then twice the old one.
GrowCap(cap) == IF cap = 0 THEN 1 ELSE 2 * cap

\* append(sl, x): within the capacity x is stored into the backing array sl
\* shares with every other slice of it; beyond, the elements are copied to a
\* new array.
SliceAppend(arrs, sl, x) ==
    IF sl.len < SliceCap(arrs, sl)
    THEN [arrays |-> [arrs EXCEPT ![sl.arr][sl.len + 1] = x],
          slice  |-> [sl EXCEPT !.len = @ + 1]]
    ELSE [arrays |-> Append(arrs, [k \in 1..GrowCap(SliceCap(arrs, sl)) |->
                                      IF k <= sl.len THEN arrs[sl.arr][k]
                                      ELSE IF k = sl.len + 1 THEN x ELSE NoRegistration]),
          slice  |-> [arr |-> Len(arrs) + 1, len |-> sl.len + 1]]

\* sort.Slice(sl, less) sorts the backing array's first sl.len places.
SliceSort(arrs, sl, which) ==
    [arrs EXCEPT ![sl.arr] = SortSlice(SubSeq(@, 1, sl.len), which)
                             \o SubSeq(@, sl.len + 1, Len(@))]

\* The backing arrays and r.hooks[hookType] after n AddHook calls of one
\* priority.
RECURSIVE HooksAdded(_)
HooksAdded(n) ==
    IF n = 0 THEN [arrays |-> <<>>, slice |-> NilSlice]
    ELSE LET a == SliceAppend(HooksAdded(n - 1).arrays, HooksAdded(n - 1).slice,
                              [PluginID |-> "A", Handler |-> n, Priority |-> 90])
         IN  [arrays |-> SliceSort(a.arrays, a.slice, "AddHook"), slice |-> a.slice]

InitDispatch ==
    /\ pdArrays = <<>>
    /\ pdHooks = NilSlice
    /\ pdMu = FreeMutex
    /\ pdPc = "idle"
    /\ pdLocal = NilSlice
    /\ pdIndex = 0
    /\ pdInvoked = <<>>
    /\ pdListed = <<>>
    /\ pdAdds = 0
    /\ pdInside = 0
    /\ hdHooks = <<>>
    /\ hdMu = FreeMutex
    /\ hdPc = "idle"
    /\ hdCopy = <<>>
    /\ hdIndex = 0
    /\ hdInvoked = <<>>
    /\ hdNow = 0
    /\ hdInside = 0

\* PluginRegistry.AddHook for plugin A, called by another goroutine or by
\* the handler the dispatch is in: r.mu.Lock() waits until nobody holds r.mu.
PdAddHook ==
    /\ pdAdds < MaxSliceAdds
    /\ pdMu = FreeMutex
    /\ \E priority \in ApiPriorities :
          \E a \in {SliceAppend(pdArrays, pdHooks,
                                [PluginID |-> "A", Handler |-> pdAdds + 1,
                                 Priority |-> priority])} :
              /\ pdArrays' = SliceSort(a.arrays, a.slice, "AddHook")
              /\ pdHooks' = a.slice
    /\ pdAdds' = pdAdds + 1
    /\ pdInside' = IF pdPc = "handler" THEN pdInside + 1 ELSE pdInside
    /\ UNCHANGED <<pdMu, pdPc, pdLocal, pdIndex, pdInvoked, pdListed, hdvars,
                   gvars, rvars, hvars, svars, lvars>>

\* PluginRegistry.ExecuteHooks: r.mu.RLock()
PdRLock ==
    /\ pdPc = "idle"
    /\ ~pdMu.writer
    /\ pdMu' = [pdMu EXCEPT !.readers = @ + 1]
    /\ pdPc' = "locked"
    /\ UNCHANGED <<pdArrays, pdHooks, pdLocal, pdIndex, pdInvoked, pdListed, pdAdds,
                   pdInside, hdvars, gvars, rvars, hvars, svars, lvars>>

\* hooks := r.hooks[hookType]; r.mu.RUnlock(); if len(hooks) == 0 { return nil }
PdRead ==
    /\ pdPc = "locked"
    /\ pdLocal' = pdHooks
    /\ pdListed' = SliceElems(pdArrays, pdHooks)
    /\ pdMu' = ReleaseRead(pdMu)
    /\ pdIndex' = 1
    /\ pdPc' = IF pdHooks.len = 0 THEN "done" ELSE "loop"
    /\ UNCHANGED <<pdArrays, pdHooks, pdInvoked, pdAdds, pdInside, hdvars,
                   gvars, rvars, hvars, svars, lvars>>

\* for _, registration := range hooks { ... registration.Handler(hookCtx)
PdCall ==
    /\ pdPc = "loop"
    /\ pdInvoked' = Append(pdInvoked, pdArrays[pdLocal.arr][pdIndex].Handler)
    /\ pdPc' = "handler"
    /\ UNCHANGED <<pdArrays, pdHooks, pdMu, pdLocal, pdIndex, pdListed, pdAdds, pdInside,
                   hdvars, gvars, rvars, hvars, svars, lvars>>

\* The handler returns: an error ends the dispatch, and so does the end of
\* the slice.
PdReturn ==
    /\ pdPc = "handler"
    /\ \E failed \in BOOLEAN :
          pdPc' = IF failed \/ pdIndex = pdLocal.len THEN "done" ELSE "loop"
    /\ pdIndex' = pdIndex + 1
    /\ UNCHANGED <<pdArrays, pdHooks, pdMu, pdLocal, pdInvoked, pdListed, pdAdds, pdInside,
                   hdvars, gvars, rvars, hvars, svars, lvars>>

\* The steps of the goroutine in PluginRegistry.ExecuteHooks.
PdStep == PdRLock \/ PdRead \/ PdCall \/ PdReturn

\* HookRegistry.RegisterHook, called by another goroutine or by the handler
\* the dispatch is in.
HdRegisterHook ==
    /\ hdNow < MaxHooks
    /\ hdPc = "handler" => hdInside < MaxInside
    /\ hdMu = FreeMutex
    /\ \E priority \in HookPriorities :
          hdHooks' = SortSlice(Append(hdHooks, [ID |-> HookID("A", "query.execute", hdNow + 1),
                                                Priority |-> priority]),
                               "RegisterHook")
    /\ hdNow' = hdNow + 1
    /\ hdInside' = IF hdPc = "handler" THEN hdInside + 1 ELSE hdInside
    /\ UNCHANGED <<hdMu, hdPc, hdCopy, hdIndex, hdInvoked, pdvars, gvars, rvars, hvars, svars, lvars>>

\* HookRegistry.UnregisterHook of a registered hook, called by the handler
\* the dispatch is in.
HdUnregisterHook ==
    /\ hdInside < MaxInside
    /\ hdPc = "handler"
    /\ hdMu = FreeMutex
    /\ \E i \in 1..Len(hdHooks) : hdHooks' = RemoveAt(hdHooks, i)
    /\ hdInside' = hdInside + 1
    /\ UNCHANGED <<hdMu, hdPc, hdCopy, hdIndex, hdInvoked, hdNow, pdvars,
                   gvars, rvars, hvars, svars, lvars>>

\* HookRegistry.ExecuteHooks: r.mu.RLock()
HdRLock ==
    /\ hdPc = "idle"
    /\ ~hdMu.writer
    /\ hdMu' = [hdMu EXCEPT !.readers = @ + 1]
    /\ hdPc' = "locked"
    /\ UNCHANGED <<hdHooks, hdCopy, hdIndex, hdInvoked, hdNow, hdInside, pdvars,
                   gvars, rvars, hvars, svars, lvars>>

\* The list is copied into registrationsCopy and r.mu.RUnlock() called, on
\* either path.
HdCopy ==
    /\ hdPc = "locked"
    /\ hdCopy' = hdHooks
    /\ hdMu' = ReleaseRead(hdMu)
    /\ hdIndex' = 1
    /\ hdPc' = IF Len(hdHooks) = 0 THEN "done" ELSE "loop"
    /\ UNCHANGED <<hdHooks, hdInvoked, hdNow, hdInside, pdvars, gvars, rvars, hvars, svars, lvars>>

\* err := registration.Handler(hookCtx)
HdCall ==
    /\ hdPc = "loop"
    /\ hdInvoked' = Append(hdInvoked, hdCopy[hdIndex].ID)
    /\ hdPc' = "handler"
    /\ UNCHANGED <<hdHooks, hdMu, hdCopy, hdIndex, hdNow, hdInside, pdvars,
                   gvars, rvars, hvars, svars, lvars>>

\* The handler returns and r.recordHookExecution is called.
HdReturn ==
    /\ hdPc = "handler"
    /\ hdPc' = "record"
    /\ UNCHANGED <<hdHooks, hdMu, hdCopy, hdIndex, hdInvoked, hdNow, hdInside, pdvars,
                   gvars, rvars, hvars, svars, lvars>>

\* recordHookExecution: r.mu.Lock() waits until nobody holds r.mu. Then the
\* loop goes on, unless the handler set StopChain or the copy is at its end.
HdRecord ==
    /\ hdPc = "record"
    /\ hdMu = FreeMutex
    /\ \E stopChain \in BOOLEAN :
          hdPc' = IF stopChain \/ hdIndex = Len(hdCopy) THEN "done" ELSE "loop"
    /\ hdIndex' = hdIndex + 1
    /\ UNCHANGED <<hdHooks, hdMu, hdCopy, hdInvoked, hdNow, hdInside, pdvars,
                   gvars, rvars, hvars, svars, lvars>>

\* The steps of the goroutine in HookRegistry.ExecuteHooks.
HdStep == HdRLock \/ HdCopy \/ HdCall \/ HdReturn \/ HdRecord

NextSliceDispatch ==
    \/ PdAddHook
    \/ PdRLock
    \/ PdRead
    \/ PdCall
    \/ PdReturn

NextReentrant ==
    \/ PdAddHook
    \/ PdRLock
    \/ PdRead
    \/ PdCall
    \/ PdReturn
    \/ HdRegisterHook
    \/ HdUnregisterHook
    \/ HdRLock
    \/ HdCopy
    \/ HdCall
    \/ HdReturn
    \/ HdRecord

\* ------------------------------------------------- lifecycle calls in steps
\* StartPlugin, StopPlugin, RestartPlugin and StartPlugins on one registered
\* plugin, taken read by read and invocation by invocation, for callers that
\* run at the same time. The plugin has no dependencies, declares one
\* handler and provides one capability.
MaxCallers == 2

MaxLifecycleCalls == 2

Callers == 1..MaxCallers

LifecycleOps == {"StartPlugin", "StopPlugin", "RestartPlugin", "StartPlugins"}

\* The plugin as RegisterPlugin leaves it.
InitLifecycle ==
    /\ lcState = "Loaded"
    /\ lcPc = [g \in Callers |-> "idle"]
    /\ lcOp = [g \in Callers |-> "-"]
    /\ lcCalls = [g \in Callers |-> 0]
    /\ lcLog = <<>>
    /\ lcOrder = <<>>
    /\ lcHooks = 0
    /\ lcProviders = 0

\* No GetPluginInfo has ended the process.
LcRunning == \A g \in Callers : lcPc[g] # "fatal"

\* Where a caller is after GetPluginInfo: its deferred Unlock of the read
\* lock ends the process, or releases the lock.
LcAfterInfo(next) == IF unlockFatal THEN "fatal" ELSE next

\* Where a caller is when StopPlugin has returned nil: RestartPlugin goes on
\* to StartPlugin.
LcAfterStop(op) == IF op = "RestartPlugin" THEN "start.info" ELSE "idle"

\* A caller calls a method of the lifecycle manager.
LcCall ==
    /\ LcRunning
    /\ \E g \in Callers, op \in LifecycleOps :
          /\ lcPc[g] = "idle"
          /\ lcCalls[g] < MaxLifecycleCalls
          /\ lcCalls' = [lcCalls EXCEPT ![g] = @ + 1]
          /\ lcOp' = [lcOp EXCEPT ![g] = op]
          /\ lcPc' = [lcPc EXCEPT ![g] =
                         CASE op = "StartPlugin" -> "start.info"
                           [] op = "StartPlugins" -> "resolve"
                           [] OTHER -> "stop.info"]
    /\ UNCHANGED <<lcState, lcLog, lcOrder, lcHooks, lcProviders,
                   gvars, rvars, hvars, svars, dvars>>

\* StartPlugins: ValidateDependencies and ResolveDependencies, which stores
\* the order.
LcResolve ==
    /\ LcRunning
    /\ \E g \in Callers :
          /\ lcPc[g] = "resolve"
          /\ lcOrder' = <<"A">>
          /\ lcPc' = [lcPc EXCEPT ![g] = "start.info"]
    /\ UNCHANGED <<lcState, lcOp, lcCalls, lcLog, lcHooks, lcProviders,
                   gvars, rvars, hvars, svars, dvars>>

\* StartPlugin: info, err := lm.registry.GetPluginInfo(pluginID)
LcStartInfo ==
    /\ LcRunning
    /\ \E g \in Callers :
          /\ lcPc[g] = "start.info"
          /\ lcPc' = [lcPc EXCEPT ![g] = LcAfterInfo("start.switch")]
    /\ UNCHANGED <<lcState, lcOp, lcCalls, lcLog, lcOrder, lcHooks, lcProviders,
                   gvars, rvars, hvars, svars, dvars>>

\* StartPlugin: switch info.State, which returns for Started and Failed.
LcStartSwitch ==
    /\ LcRunning
    /\ \E g \in Callers :
          /\ lcPc[g] = "start.switch"
          /\ lcPc' = [lcPc EXCEPT ![g] = IF StartPluginSwitch(lcState) = "go on"
                                          THEN "start.check" ELSE "idle"]
    /\ UNCHANGED <<lcState, lcOp, lcCalls, lcLog, lcOrder, lcHooks, lcProviders,
                   gvars, rvars, hvars, svars, dvars>>

\* StartPlugin: if info.State == StateLoaded { info.Instance.Init(ctx, config)
LcStartCheck ==
    /\ LcRunning
    /\ \E g \in Callers :
          /\ lcPc[g] = "start.check"
          /\ IF lcState = "Loaded"
             THEN /\ lcLog' = Append(lcLog, "Init")
                  /\ lcPc' = [lcPc EXCEPT ![g] = "Init"]
             ELSE /\ lcPc' = [lcPc EXCEPT ![g] = "start.start"]
                  /\ UNCHANGED lcLog
    /\ UNCHANGED <<lcState, lcOp, lcCalls, lcOrder, lcHooks, lcProviders,
                   gvars, rvars, hvars, svars, dvars>>

\* Init returns: an error makes the plugin Failed and ends StartPlugin.
LcInitReturn ==
    /\ LcRunning
    /\ \E g \in Callers, failed \in BOOLEAN :
          /\ lcPc[g] = "Init"
          /\ lcState' = IF failed THEN "Failed" ELSE "Initialized"
          /\ lcPc' = [lcPc EXCEPT ![g] = IF failed THEN "idle" ELSE "start.start"]
    /\ UNCHANGED <<lcOp, lcCalls, lcLog, lcOrder, lcHooks, lcProviders,
                   gvars, rvars, hvars, svars, dvars>>

\* StartPlugin: info.Instance.Start(ctx)
LcStartCall ==
    /\ LcRunning
    /\ \E g \in Callers :
          /\ lcPc[g] = "start.start"
          /\ lcLog' = Append(lcLog, "Start")
          /\ lcPc' = [lcPc EXCEPT ![g] = "Start"]
    /\ UNCHANGED <<lcState, lcOp, lcCalls, lcOrder, lcHooks, lcProviders,
                   gvars, rvars, hvars, svars, dvars>>

\* Start returns: an error makes the plugin Failed; otherwise the plugin is
\* Started, its declared handler is added with AddHook and the plugin is
\* appended to the providers of its capability.
LcStartReturn ==
    /\ LcRunning
    /\ \E g \in Callers, failed \in BOOLEAN :
          /\ lcPc[g] = "Start"
          /\ lcState' = IF failed THEN "Failed" ELSE "Started"
          /\ lcHooks' = IF failed THEN lcHooks ELSE lcHooks + 1
          /\ lcProviders' = IF failed THEN lcProviders ELSE lcProviders + 1
          /\ lcPc' = [lcPc EXCEPT ![g] = "idle"]
    /\ UNCHANGED <<lcOp, lcCalls, lcLog, lcOrder, gvars, rvars, hvars, svars, dvars>>

\* StopPlugin: info, err := lm.registry.GetPluginInfo(pluginID)
LcStopInfo ==
    /\ LcRunning
    /\ \E g \in Callers :
          /\ lcPc[g] = "stop.info"
          /\ lcPc' = [lcPc EXCEPT ![g] = LcAfterInfo("stop.check")]
    /\ UNCHANGED <<lcState, lcOp, lcCalls, lcLog, lcOrder, lcHooks, lcProviders,
                   gvars, rvars, hvars, svars, dvars>>

\* StopPlugin: a plugin that is not Started is left alone; a Started one,
\* which has no dependents, gets info.Instance.Stop(ctx).
LcStopCheck ==
    /\ LcRunning
    /\ \E g \in Callers :
          /\ lcPc[g] = "stop.check"
          /\ IF lcState # "Started"
             THEN /\ lcPc' = [lcPc EXCEPT ![g] = LcAfterStop(lcOp[g])]
                  /\ UNCHANGED lcLog
             ELSE /\ lcLog' = Append(lcLog, "Stop")
                  /\ lcPc' = [lcPc EXCEPT ![g] = "Stop"]
    /\ UNCHANGED <<lcState, lcOp, lcCalls, lcOrder, lcHooks, lcProviders,
                   gvars, rvars, hvars, svars, dvars>>

\* Stop returns: an error makes the plugin Failed and ends the call.
LcStopReturn ==
    /\ LcRunning
    /\ \E g \in Callers, failed \in BOOLEAN :
          /\ lcPc[g] = "Stop"
          /\ lcState' = IF failed THEN "Failed" ELSE "Stopped"
          /\ lcPc' = [lcPc EXCEPT ![g] = IF failed THEN "idle" ELSE LcAfterStop(lcOp[g])]
    /\ UNCHANGED <<lcOp, lcCalls, lcLog, lcOrder, lcHooks, lcProviders,
                   gvars, rvars, hvars, svars, dvars>>

NextLifecycleSteps ==
    \/ LcCall
    \/ LcResolve
    \/ LcStartInfo
    \/ LcStartSwitch
    \/ LcStartCheck
    \/ LcInitReturn
    \/ LcStartCall
    \/ LcStartReturn
    \/ LcStopInfo
    \/ LcStopCheck
    \/ LcStopReturn

\* --------------------------------------------------------- specifications
\* Every object as its constructor leaves it.
InitAll ==
    InitGraph /\ InitRegistry /\ InitHooks /\ InitSandbox /\ InitDispatch /\ InitLifecycle

\* The program as built: the mismatched Unlock of GetPluginInfo is fatal.
Init == InitAll /\ unlockFatal = TRUE

\* A client of the hook registry.
SpecHookRegistry == Init /\ [][NextHookRegistry]_vars

\* A client of the plugin registry's hook calls alone.
NextPluginHooks ==
    \/ DoRegisterPlugin
    \/ DoAddHook
    \/ DoExecuteHooks

SpecPluginHooks == Init /\ [][NextPluginHooks]_vars

\* A client of the loader and the lifecycle manager.
NextRegistry ==
    \/ DoRegisterPlugin
    \/ DoLoadPlugin
    \/ DoUnloadPlugin
    \/ DoValidateDependencies
    \/ DoResolveDependencies
    \/ DoStartPlugin
    \/ DoStartPlugins
    \/ DoStopPlugin
    \/ DoStopPlugins
    \/ DoRestartPlugin
    \/ DoReloadPlugin

Next == NextRegistry

Spec == Init /\ [][Next]_vars

\* The same program with that Unlock releasing the read lock instead, which
\* shows what the lifecycle code does beyond its first GetPluginInfo.
InitNoFault == InitAll /\ unlockFatal = FALSE

SpecNoFault == InitNoFault /\ [][Next]_vars

\* Concurrent callers of the lifecycle manager, that Unlock releasing the
\* read lock.
SpecLifecycleSteps == InitNoFault /\ [][NextLifecycleSteps]_vars

\* A client of a dependency graph.
NextGraph ==
    \/ GraphAddPlugin
    \/ GraphAddDependency
    \/ GraphDetectCycle
    \/ GraphTopologicalSort

SpecGraph == Init /\ [][NextGraph]_vars

\* A caller of one sandbox.
SpecSandbox == Init /\ [][NextSandbox]_vars

\* The same caller with a scheduler that lets the waiting monitor goroutine
\* run: of the ready cases of its select, <-ctx.Done() or <-done is taken in
\* the end.
SpecSandboxFair == SpecSandbox /\ WF_vars(SbMonitorExit)

\* The program as built with a hook registry whose list has grown long.
InitLong ==
    InitGraph /\ InitRegistry /\ InitLongHooks /\ InitSandbox /\ InitDispatch /\ InitLifecycle
    /\ unlockFatal = TRUE

\* A client of a hook registry with many registrations of one hook type.
SpecLongHooks == InitLong /\ [][NextLongHooks]_vars

\* A PluginRegistry whose hooks are dispatched while AddHook calls arrive.
SpecSliceDispatch == Init /\ [][NextSliceDispatch]_vars

\* Both registries dispatching while calls arrive, from other goroutines and
\* from the handlers; with MaxSliceAdds - 1 handlers added to the
\* PluginRegistry beforehand.
InitReentrant ==
    /\ InitGraph /\ InitRegistry /\ InitHooks /\ InitSandbox /\ InitLifecycle /\ unlockFatal = TRUE
    /\ pdArrays = HooksAdded(MaxSliceAdds - 1).arrays
    /\ pdHooks = HooksAdded(MaxSliceAdds - 1).slice
    /\ pdMu = FreeMutex
    /\ pdPc = "idle"
    /\ pdLocal = NilSlice
    /\ pdIndex = 0
    /\ pdInvoked = <<>>
    /\ pdListed = <<>>
    /\ pdAdds = MaxSliceAdds - 1
    /\ pdInside = 0
    /\ hdHooks = <<>>
    /\ hdMu = FreeMutex
    /\ hdPc = "idle"
    /\ hdCopy = <<>>
    /\ hdIndex = 0
    /\ hdInvoked = <<>>
    /\ hdNow = 0
    /\ hdInside = 0

\* The scheduler runs a goroutine that can take a step, and handlers return.
SpecReentrant ==
    InitReentrant /\ [][NextReentrant]_vars /\ WF_vars(PdStep) /\ WF_vars(HdStep)

\* -------------------------------------------------------------- properties
\* The successors of the nodes S under the edges E (pairs <<from, to>>).
Successors(E, S) == {e[2] : e \in {x \in E : x[1] \in S}}

\* The nodes reachable from S under E in zero or more steps.
RECURSIVE ReachFrom(_, _)
ReachFrom(E, S) ==
    LET T == S \cup Successors(E, S)
    IN  IF T = S THEN S ELSE ReachFrom(E, T)

\* Whether E holds a path of one or more edges from a back to a.
HasCycle(E) == \E e \in E : e[1] \in ReachFrom(E, {e[2]})

\* The dependsOn edges of a graph: from a node to each node of the graph its
\* DependsOn names.
GraphEdges(nodes) ==
    {e \in UNION {{<<a, nodes[a].DependsOn[i]>> : i \in 1..Len(nodes[a].DependsOn)} :
                    a \in DOMAIN nodes} :
        e[2] \in DOMAIN nodes}

\* The methods named method in an invocation log, as the IDs they were
\* invoked on, in order.
RECURSIVE Invoked(_, _)
Invoked(log, method) ==
    IF log = <<>> THEN <<>>
    ELSE IF Head(log)[1] = method THEN <<Head(log)[2]>> \o Invoked(Tail(log), method)
    ELSE Invoked(Tail(log), method)

\* C1: for an acyclic graph, TopologicalSort returns without error an order
\* that holds every node once and places every dependency before the node
\* that depends on it.
C1_DependenciesFirst ==
    (gret.op = "TopologicalSort" /\ ~HasCycle(GraphEdges(gnodes))) =>
        /\ gret.err = "nil"
        /\ SeqToSet(gret.order) = DOMAIN gnodes
        /\ NoDup(gret.order)
        /\ \A e \in GraphEdges(gnodes) :
               IndexOf(gret.order, e[2]) < IndexOf(gret.order, e[1])

\* C2: DetectCycle returns a non-empty path and an error exactly when the
\* dependsOn edges hold a cycle, and the path returned holds the nodes of
\* one cycle, each once, in the order of the edges.
C2_CycleReported ==
    gret.op = "DetectCycle" =>
        /\ HasCycle(GraphEdges(gnodes)) <=> (Len(gret.cycle) > 0 /\ gret.err # "nil")
        /\ ~HasCycle(GraphEdges(gnodes)) <=> (Len(gret.cycle) = 0 /\ gret.err = "nil")
        /\ Len(gret.cycle) > 0 =>
               /\ NoDup(gret.cycle)
               /\ \A i \in 1..Len(gret.cycle) :
                      <<gret.cycle[i], gret.cycle[(i % Len(gret.cycle)) + 1]>>
                          \in GraphEdges(gnodes)

\* The plugins a registered plugin declares a non-optional dependency on.
RequiredDeps(ps, x) ==
    {ps[x].Metadata.Dependencies[i].PluginID :
        i \in {j \in 1..Len(ps[x].Metadata.Dependencies) :
                  ~ps[x].Metadata.Dependencies[j].Optional}}

\* The non-optional dependencies between registered plugins, as edges from
\* the dependent to the dependency.
PluginEdges(ps) ==
    UNION {{<<x, y>> : y \in RequiredDeps(ps, x) \cap DOMAIN ps} : x \in DOMAIN ps}

\* The non-optional dependencies on plugins that are not registered.
MissingPairs(ps) ==
    UNION {{<<x, y>> : y \in RequiredDeps(ps, x) \ DOMAIN ps} : x \in DOMAIN ps}

\* The registered plugins are the chain A, B -> A, C -> B.
IsChain(ps) ==
    /\ DOMAIN ps = {"A", "B", "C"}
    /\ PluginEdges(ps) = {<<"B", "A">>, <<"C", "B">>}
    /\ MissingPairs(ps) = {}

\* A plugin that depends on x without option is Started.
HasStartedDependent(ps, x) ==
    \E e \in PluginEdges(ps) : e[2] = x /\ ps[e[1]].State = "Started"

\* C3: a StartPlugins call that finds a cycle among the non-optional
\* dependencies of the registered plugins (and none of them missing) returns
\* a dependency-cycle error, invokes no Init and no Start, and leaves every
\* plugin as it was.
C3_CycleAbortsStart ==
    [][(ret'.op = "StartPlugins" /\ HasCycle(PluginEdges(plugins))
            /\ MissingPairs(plugins) = {}) =>
          /\ ret'.err \in {"dependency cycle detected", "circular dependencies",
                           "failed to resolve dependencies"}
          /\ calls' = <<>>
          /\ plugins' = plugins]_vars

EnabledRegistrations(hookType) ==
    {r \in UNION {SeqToSet(byPlugin[p]) : p \in DOMAIN byPlugin} :
        r.HookType = hookType /\ r.Enabled}

\* The priority the registration with the ID id was registered with.
PriorityOf(id) ==
    (CHOOSE r \in UNION {SeqToSet(byPlugin[p]) : p \in DOMAIN byPlugin} : r.ID = id).Priority

\* C8: a dispatch of HookRegistry.ExecuteHooks invokes only enabled
\* registrations of the hook type, each at most once, in the order of
\* non-increasing priority; a registration it leaves out has no higher
\* priority than one it invokes, and none is left out unless an invoked
\* handler set StopChain. RegisterHook creates every registration enabled
\* and nothing in the repository clears the field, so no reachable registry
\* holds a disabled registration.
C8_DescendingPriority ==
    hrRet.op = "ExecuteHooks" =>
        LET ids == {r.ID : r \in EnabledRegistrations(hrRet.hookType)}
        IN  /\ NoDup(hrCalls)
            /\ SeqToSet(hrCalls) \subseteq ids
            /\ \A i, j \in 1..Len(hrCalls) :
                   i < j => PriorityOf(hrCalls[i]) >= PriorityOf(hrCalls[j])
            /\ \A id \in ids \ SeqToSet(hrCalls) :
                   \A i \in 1..Len(hrCalls) : PriorityOf(hrCalls[i]) >= PriorityOf(id)
            /\ (\A i \in 1..Len(hrCalls) : ~hrRet.outcome[hrCalls[i]].StopChain) =>
                   SeqToSet(hrCalls) = ids

\* After three registrations and the removal of one, a dispatch has invoked
\* a handler of priority 90 before a handler of priority 10 that was
\* registered earlier.
C8_Witness ==
    /\ hrRet.op = "ExecuteHooks"
    /\ now = 3
    /\ Cardinality(RegisteredHookIDs) = 2
    /\ Len(hrCalls) = 2
    /\ PriorityOf(hrCalls[1]) = 90
    /\ PriorityOf(hrCalls[2]) = 10
    /\ hrCalls[1][3] > hrCalls[2][3]

\* C9: in a dispatch of HookRegistry.ExecuteHooks no handler is invoked
\* after one that set StopChain, whether that one failed or not, and every
\* registration of the hook type is invoked unless an invoked handler set
\* StopChain: a handler that fails without setting it does not end the
\* dispatch. The error returned is that of the last handler that failed.
C9_StopChain ==
    hrRet.op = "ExecuteHooks" =>
        LET failed == {i \in 1..Len(hrCalls) : hrRet.outcome[hrCalls[i]].err}
        IN  /\ \A i \in 1..(Len(hrCalls) - 1) : ~hrRet.outcome[hrCalls[i]].StopChain
            /\ (Len(hrCalls) = 0 \/ ~hrRet.outcome[hrCalls[Len(hrCalls)]].StopChain) =>
                   Len(hrCalls) = Cardinality(EnabledRegistrations(hrRet.hookType))
            /\ hrRet.err = (IF failed = {} THEN "nil"
                            ELSE hrCalls[CHOOSE i \in failed : \A j \in failed : j <= i])

\* A dispatch over three registrations whose first handler failed without
\* setting StopChain and whose second set StopChain without failing has
\* invoked those two and not the third.
C9_Witness ==
    /\ hrRet.op = "ExecuteHooks"
    /\ Cardinality(EnabledRegistrations(hrRet.hookType)) = 3
    /\ Len(hrCalls) = 2
    /\ hrRet.outcome[hrCalls[1]].err /\ ~hrRet.outcome[hrCalls[1]].StopChain
    /\ ~hrRet.outcome[hrCalls[2]].err /\ hrRet.outcome[hrCalls[2]].StopChain
    /\ hrRet.err = hrCalls[1]

\* C10: every hook type's list in the plugin registry is in the order of
\* non-increasing priority, and PluginRegistry.ExecuteHooks invokes the
\* handlers in that order.
C10_AddHookDescending ==
    /\ \A t \in DOMAIN hooks :
           \A i, j \in 1..Len(hooks[t]) :
               i < j => hooks[t][i].Priority >= hooks[t][j].Priority
    /\ ret.op = "ExecuteHooks" =>
           LET invoked == Invoked(calls, "Handler")
           IN  \A i, j \in 1..Len(invoked) :
                   i < j => invoked[i].Priority >= invoked[j].Priority

\* C11: a dispatch of PluginRegistry.ExecuteHooks invokes every registration
\* of the hook type, in the order of the list, whether or not a handler
\* fails, and returns an error exactly when one of them failed.
C11_ErrorKeepsChain ==
    ret.op = "ExecuteHooks" =>
        /\ Invoked(calls, "Handler") = MapGet(hooks, ret.hookType)
        /\ (ret.err = "nil") <=> (ret.failing = {})

\* ------------------------------------------------------------ Sandbox claims
\* The executions that have returned to their caller.
Returned == {e \in Execs : exPc[e] = "returned"}

\* C12, as stated: whenever fn has panicked and Execute has returned, what
\* Execute returned is the error made of the panic.
C12_PanicReturnsFault ==
    \A e \in Returned : exFn[e] = "panic" => exRet[e] = "plugin panic"

\* C12, amended: a panic of fn never ends the process; it reaches Execute as
\* the plugin-panic error on errCh, so an Execute that returns after it
\* returns a non-nil error, and returns the plugin-panic error whenever its
\* wait ends through errCh rather than through cancellation or the deadline.
C12_PanicConverted ==
    /\ sbHost = "running"
    /\ \A e \in Execs :
          exFn[e] = "panic" =>
              /\ exPc[e] = "select" => exErrCh[e] = <<"plugin panic">>
              /\ exPc[e] = "returned" => exRet[e] # "nil"
              /\ exPc[e] = "returned" /\ exVia[e] = "errCh" => exRet[e] = "plugin panic"

C12_Witness ==
    \E e \in Returned : exFn[e] = "panic" /\ exVia[e] = "errCh" /\ exRet[e] = "plugin panic"

\* The errors Execute returns when the caller's context ends the wait or the
\* MaxCPUTime timer fires.
OtherEndings ==
    {ErrCancelled("Canceled"), ErrCancelled("DeadlineExceeded"), "CPU time limit exceeded"}

\* The executions whose context their own monitor cancelled on a sample with
\* the memory above MaxMemory, MaxMemory being set.
MemoryCancelled ==
    {e \in Execs : /\ exCause[e].by = "monitor"
                   /\ exCause[e].monitor = e
                   /\ sbLimits[1].MaxMemory > 0
                   /\ exCause[e].usage.memoryUsage > sbLimits[1].MaxMemory}

\* C13: an Execute whose wait is ended by its monitor's cancellation for
\* memory returns an error that tells the memory limit apart from a
\* cancellation by the caller and from the CPU-time deadline.
C13_MemoryLimitError ==
    \A e \in Returned \cap MemoryCancelled :
        exVia[e] = "ctx.Done" => exRet[e] \notin OtherEndings

\* C14: an Execute that returns nil took fn's result from errCh and fn had
\* returned nil; an Execute whose wait ended through its context (cancelled
\* by the caller or by a monitor) or through the MaxCPUTime timer returns a
\* non-nil error.
C14_NilOnlyOnSuccess ==
    \A e \in Returned :
        /\ exRet[e] = "nil" => exVia[e] = "errCh" /\ exFn[e] = "nil"
        /\ exVia[e] \in {"ctx.Done", "time.After"} => exRet[e] # "nil"

C14_Witness ==
    \E e, f \in Returned :
        /\ exRet[e] = "nil" /\ exFn[e] = "nil"
        /\ exVia[f] = "ctx.Done" /\ exCause[f].by = "monitor" /\ exRet[f] # "nil"

\* ---------------------------------------------------------- lifecycle claims
\* The methods of the instance id that the last operation invoked.
MethodsInvokedOn(log, id) ==
    {log[i][1] : i \in {j \in 1..Len(log) : log[j][1] # "Handler" /\ log[j][2] = id}}

HooksRegistered(hs, id, declared) ==
    \A t \in DOMAIN declared :
        \A i \in 1..Len(declared[t]) :
            \E k \in 1..Len(MapGet(hs, t)) :
                /\ MapGet(hs, t)[k].PluginID = id
                /\ MapGet(hs, t)[k].Handler = declared[t][i]

\* Every capability in provides lists id as a provider in the table caps.
ProvidesRegistered(caps, id, provides) ==
    \A i \in 1..Len(provides) : Contains(MapGet(caps, provides[i]), id)

StartPluginErrors ==
    {"failed to initialize plugin", "failed to start plugin", "plugin is in failed state"}

StopFailures ==
    {id \in SeqToSet(pluginOrder) :
        \/ id \notin DOMAIN plugins
        \/ plugins[id].State = "Started" /\ plugins'[id].State \in {"Failed", "Started"}}

Reverse(s) == [i \in 1..Len(s) |-> s[Len(s) + 1 - i]]

\* The entries of order that are registered in ps in the state st, in order.
InState(order, ps, st) ==
    LET Test(id) == id \in DOMAIN ps /\ ps[id].State = st
    IN  SelectSeq(order, Test)

ReloadRank(method) ==
    CASE method = "Stop" -> 1
      [] method = "UnloadPlugin" -> 2
      [] method = "LoadPlugin" -> 3
      [] method = "Init" -> 4
      [] OTHER -> 5

C21_RegisterPlugin ==
    [][ret'.op = "RegisterPlugin" =>
          IF ret'.id \in DOMAIN plugins
          THEN /\ ret'.err = "ErrPluginAlreadyLoaded"
               /\ plugins' = plugins
          ELSE /\ ret'.err = "nil"
               /\ DOMAIN plugins' = DOMAIN plugins \cup {ret'.id}
               /\ plugins'[ret'.id].State = "Loaded"
               /\ \A other \in DOMAIN plugins : plugins'[other] = plugins[other]]_vars

\* A refused RegisterPlugin of a plugin that has a hook registered, with
\* another plugin in the table.
C21_Witness ==
    /\ ret.op = "RegisterPlugin"
    /\ ret.err = "ErrPluginAlreadyLoaded"
    /\ plugins[ret.id].Hooks # EmptyMap
    /\ DOMAIN plugins # {ret.id}

FailedCalls == {i \in 1..Len(hrCalls) : hrRet.outcome[hrCalls[i]].err}

\* C23: a dispatch of HookRegistry.ExecuteHooks returns nil when no handler
\* it invoked returned an error, and otherwise the error of the handler that
\* failed last, whatever the handlers invoked after that one did.
C23_LastError ==
    hrRet.op = "ExecuteHooks" =>
        IF FailedCalls = {} THEN hrRet.err = "nil"
        ELSE \E i \in FailedCalls :
                /\ \A j \in FailedCalls : j <= i
                /\ hrRet.err = hrCalls[i]

\* A dispatch over three registrations whose first two handlers failed and
\* whose third did not, none setting StopChain.
C23_Witness ==
    /\ hrRet.op = "ExecuteHooks"
    /\ Len(hrCalls) = 3
    /\ FailedCalls = {1, 2}
    /\ hrRet.err = hrCalls[2]

\* The place of the registration with the ID id in the list s, and s
\* without it.
Without(s, id) ==
    LET Keep(reg) == reg.ID # id
    IN  SelectSeq(s, Keep)

\* C24: a registration leaves the registrations the list held in the order
\* they were in and puts the new one after every registration of its
\* priority, in HookRegistry.RegisterHook and in PluginRegistry.AddHook, so
\* that registrations of equal priority stay in the order of registration.
C24_StableTies ==
    [][/\ hrRet'.op = "RegisterHook" /\ hrRet' # hrRet =>
              \A t \in DOMAIN hrHooks' :
                  /\ Without(hrHooks'[t], hrRet'.hookID) = MapGet(hrHooks, t)
                  /\ \A i, j \in 1..Len(hrHooks'[t]) :
                        (/\ hrHooks'[t][i].ID = hrRet'.hookID
                         /\ hrHooks'[t][j].Priority = hrHooks'[t][i].Priority) => j <= i
       /\ (ret'.op = "AddHook" /\ ret'.err = "nil" /\ hooks' # hooks) =>
              \A t \in DOMAIN hooks' :
                  hooks'[t] # MapGet(hooks, t) =>
                      \E p \in 1..Len(hooks'[t]) :
                          /\ RemoveAt(hooks'[t], p) = MapGet(hooks, t)
                          /\ hooks'[t][p].Handler = ret'.handler
                          /\ \A q \in (p + 1)..Len(hooks'[t]) :
                                hooks'[t][q].Priority # hooks'[t][p].Priority]_vars

\* ------------------------------------------------------------- graph claims
\* C25: AddDependency(from, to) that returns nil leaves to among the
\* DependsOn of from and from among the Dependents of to, so that the two
\* relations are inverses of each other on the pair, and a second call with
\* the same arguments changes nothing.
C25_EdgeBothWays ==
    [][(gret'.op = "AddDependency" /\ gret' # gret /\ gret'.err = "nil") =>
          /\ Contains(gnodes'[gret'.from].DependsOn, gret'.to)
          /\ Contains(gnodes'[gret'.to].Dependents, gret'.from)
          /\ AddDependency(gnodes', gret'.from, gret'.to) = [nodes |-> gnodes', err |-> "nil"]]_vars

\* ------------------------------------------------------------- lock claims
\* C26: every assignment to the plugin table, the hook lists, the
\* capability table, the resolved order and a plugin's dependents, hooks and
\* state is made while the registry's write lock is held.
C26_WritesUnderLock == \A wr \in writes : wr[2] = "Lock"

\* ------------------------------------------------------ hook data claims
\* The handlers invoked before the i-th of the last dispatch that set
\* Modified and left hookCtx.Data non-nil.
ModifiedBefore(i) ==
    {j \in 1..(i - 1) : /\ hrRet.outcome[hrCalls[j]].Modified
                        /\ hrRet.outcome[hrCalls[j]].Data # "nil"}

\* The map hookCtx.Data held when the j-th handler returned.
LeftInData(j) ==
    IF hrRet.outcome[hrCalls[j]].Data = "assign" THEN hrCalls[j] ELSE hrReceived[j].map

\* Each handler of a dispatch is passed the caller's map, or the map the
\* most recent earlier handler that set Modified left in hookCtx.Data.
MapPassedOn ==
    hrRet.op = "ExecuteHooks" =>
        \A i \in 1..Len(hrCalls) :
            IF ModifiedBefore(i) = {} THEN hrReceived[i].map = Payload
            ELSE \E j \in ModifiedBefore(i) :
                    /\ \A k \in ModifiedBefore(i) : k <= j
                    /\ hrReceived[i].map = LeftInData(j)

\* C27: each handler of a dispatch receives the original payload, or the
\* context data of the most recent earlier handler that set Modified with
\* non-nil data, and nothing in what it receives was put there by a handler
\* that did not set Modified.
C27_DataPassedOn ==
    /\ MapPassedOn
    /\ hrRet.op = "ExecuteHooks" =>
           \A i \in 1..Len(hrCalls) :
               \A s \in 1..Len(hrReceived[i].holds) :
                   \E j \in 1..(i - 1) : /\ hrCalls[j] = hrReceived[i].holds[s]
                                          /\ hrRet.outcome[hrCalls[j]].Modified

\* --------------------------------------------------------- dispatch claims
\* C28: no lock of either registry is held while a handler runs, so that
\* calls the handler makes to the registry go through, and every
\* ExecuteHooks call that has begun returns.
C28_HandlersRunUnlocked ==
    /\ [](pdPc = "handler" => pdMu = FreeMutex)
    /\ [](hdPc \in {"handler", "record"} => hdMu = FreeMutex)
    /\ (pdPc = "locked") ~> (pdPc = "done")
    /\ (hdPc = "locked") ~> (hdPc = "done")

\* Both dispatches have returned after handlers of theirs called AddHook,
\* RegisterHook and UnregisterHook.
C28_Witness ==
    /\ pdPc = "done" /\ pdInside > 0
    /\ hdPc = "done" /\ hdInside = MaxInside /\ hdNow > Len(hdHooks)

\* C29: the handlers a PluginRegistry dispatch invokes are those the list
\* held when the dispatch read it, each once and in the list's order,
\* whatever AddHook calls run meanwhile.
C29_SnapshotDispatch ==
    /\ Len(pdInvoked) <= Len(pdListed)
    /\ \A i \in 1..Len(pdInvoked) : pdInvoked[i] = pdListed[i].Handler

\* C30: a graph call that fails leaves the graph as it was: AddDependency
\* that returns an error, and DetectCycle or TopologicalSort that report a
\* cycle, change no node, no DependsOn and no Dependents; and
\* ResolveDependencies that fails leaves the registry's order and every
\* plugin's Dependents as they were.
C30_FailedCallKeepsGraph ==
    [][/\ (gret'.op \in {"AddDependency", "DetectCycle", "TopologicalSort"}
           /\ gret' # gret /\ gret'.err # "nil") => gnodes' = gnodes
       /\ (ret'.op = "ResolveDependencies" /\ ret' # ret /\ ret'.err # "nil") =>
              /\ pluginOrder' = pluginOrder
              /\ plugins' = plugins]_vars

\* AddDependency has refused a target that is not in a graph which holds
\* dependencies.
C30_Witness ==
    /\ gret.op = "AddDependency"
    /\ gret.err = "target plugin not found"
    /\ gnodes[gret.from].DependsOn # <<>>

\* ------------------------------------------------------- capability claims
\* Whether plugin x requires a capability that plugin y provides.
RequiresFrom(x, y) ==
    \E c \in SeqToSet(plugins[x].Metadata.Requires) : c \in SeqToSet(plugins[y].Metadata.Provides)

C32_MonitorCancelsOnMemoryOrFiles ==
    \A e \in Execs :
        exCause[e].by = "monitor" =>
            \/ /\ sbLimits[1].MaxMemory > 0
               /\ exCause[e].usage.memoryUsage > sbLimits[1].MaxMemory
            \/ /\ sbLimits[1].MaxOpenFiles > 0
               /\ exCause[e].usage.openFiles > sbLimits[1].MaxOpenFiles

\* ------------------------------------------------------ more registry claims
\* C33: between operations the registry's lock is free and the process has
\* not been ended by an Unlock of a mutex that was not locked for writing:
\* every operation released the lock in the mode in which it took it.
C33_LockReleasedAsTaken ==
    /\ ~fatal
    /\ mu.readers = 0
    /\ ~mu.writer

\* The registrations of a hook list that carry a handler the plugin pluginID
\* declares through GetHooks for hookType.
DeclaredIn(list, pluginID, hookType) ==
    SelectSeq(list, LAMBDA reg :
        /\ reg.PluginID = pluginID
        /\ hookType \in DOMAIN plugins[pluginID].Instance.GetHooks
        /\ reg.Handler \in SeqToSet(plugins[pluginID].Instance.GetHooks[hookType]))

C38_OwnMonitorOnly ==
    \A e \in Execs : exCause[e].by = "monitor" => exCause[e].monitor = e

\* C39: once Execute has returned, the goroutine it started is not inside
\* fn.
C39_FnOverAtReturn == \A e \in Returned : exWorker[e] # "fn"

\* C40: an Execute call leaves no goroutine waiting behind it. After Execute
\* has returned, its monitor goroutine ends; and the goroutine that runs fn
\* finds room in errCh whenever it comes to send its result, Execute having
\* returned or not, so it never blocks on the send.
C40_NothingLeftBehind ==
    /\ \A e \in Execs : (exPc[e] = "returned") ~> (exMonitor[e] = "exited")
    /\ [](\A e \in Execs : exWorker[e] \in {"applyLimits", "fn"} => CanSend(e))

C40_Witness ==
    \E e \in Returned :
        /\ exVia[e] # "errCh"
        /\ exMonitor[e] = "exited"
        /\ exWorker[e] = "exited"
        /\ exErrCh[e] # <<>>

\* ------------------------------------------------ concurrent lifecycle claims
\* The method the step invokes on the instance, "" when it invokes none.
LcInvokes == IF Len(lcLog') > Len(lcLog) THEN lcLog'[Len(lcLog')] ELSE ""

====
